---- MODULE Spec2Model ----
(***************************************************************************)
(* Verification model of the vision / PLC coordination core:               *)
(*   - TagMap            (communication/tag_map.py)                        *)
(*   - ConnectionState   (communication/connection_state.py)               *)
(*   - SimulatedPLC and CIPClient (communication/cip_client.py)            *)
(*   - RobotController   (control/robot_controller.py)                     *)
(*                                                                         *)
(* Objects are records whose fields carry the names of the Python          *)
(* attributes (without the leading underscore).  Coroutines are modelled   *)
(* by their position: a coroutine can be overtaken by other callbacks only *)
(* where it really suspends (device I/O in the executor, asyncio.sleep).   *)
(***************************************************************************)
EXTENDS Integers, Sequences, FiniteSets, TLC

(***************************************************************************)
(* Bounds of the model and configuration values                            *)
(***************************************************************************)
\* settings.cip.io_retries: extra attempts of one read/write
IoRetries == 1
\* created-but-not-started _process_current_state tasks
MaxTasks == 1
\* completed cycles counted by the model
MaxCycles == 1
\* steps of abandoned attempts that may precede a new detection
MaxStaleSteps == 1
\* pending threading.Timer callbacks of one kind in the simulated PLC
MaxSimTimers == 1
\* steps recorded by the attempts so far when one more detection is followed
MaxAttemptSteps == 3
\* settings.robot_control.ack_timeout / pick_timeout / place_timeout (seconds)
AckTimeout == 5
PickTimeout == 30
PlaceTimeout == 30
\* seconds of dwell in ERROR before recovery is attempted
ErrorDwell == 5
\* error_count above which a CONNECTED link is marked DEGRADED
DegradedThreshold == 5
\* calls made by the operator and the application in one run: start, stop,
\* reset, set_cycle_mode, the two authorizations, connect and disconnect
MaxOps == 4
\* read_tag / write_tag calls that fail after their last attempt in one run
MaxFaults == 1
\* settings.cip.auto_reconnect
AutoReconnect == TRUE
\* settings.cip.max_retries: reconnect attempts before reconnection is abandoned
MaxRetries == 1
\* _try_reconnect tasks that exist at the same time
MaxReconnectTasks == 2
\* heartbeat writes that fail after their last attempt in one run
MaxHeartbeatFaults == 2

\* the deadline a state handler compares the time since state entry with
Deadline(st) ==
  CASE st = "WAITING_ACK" -> AckTimeout
    [] st = "WAITING_PICK" -> PickTimeout
    [] st = "WAITING_PLACE" -> PlaceTimeout
    [] st = "ERROR" -> ErrorDwell
    [] OTHER -> 0

\* instants at which the time since state entry is observed: the deadline
\* itself and the first instant after it (no state without a deadline reads it)
TimeMarks(st) == IF Deadline(st) = 0 THEN {} ELSE {Deadline(st), Deadline(st) + 1}

(***************************************************************************)
(* TagMap                                                                  *)
(***************************************************************************)
TagDef(p, t, d) == [plc_name |-> p, tag_type |-> t, direction |-> d]

DefinedNames ==
  {"VisionReady", "VisionBusy", "VisionError", "VisionHeartbeat",
   "ProductDetected", "CentroidX", "CentroidY", "Confidence",
   "DetectionCount", "ProcessingTime", "VisionEchoAck", "VisionDataSent",
   "VisionReadyForNext", "SystemFault",
   "RobotAck", "RobotReady", "RobotError", "RobotBusy", "RobotPickComplete",
   "RobotPlaceComplete", "PlcAuthorizeDetection", "PlcCycleStart",
   "PlcCycleComplete", "PlcEmergencyStop", "PlcSystemMode", "Heartbeat",
   "SystemMode",
   "SafetyGateClosed", "SafetyAreaClear", "SafetyLightCurtainOK",
   "SafetyEmergencyStop"}

DEFINITIONS == [n \in DefinedNames |->
  CASE n = "VisionReady"           -> TagDef("VisionCtrl_VisionReady", "bool", "write")
    [] n = "VisionBusy"            -> TagDef("VisionCtrl_VisionBusy", "bool", "write")
    [] n = "VisionError"           -> TagDef("VisionCtrl_VisionError", "bool", "write")
    [] n = "VisionHeartbeat"       -> TagDef("VisionCtrl_Heartbeat", "bool", "write")
    [] n = "ProductDetected"       -> TagDef("PRODUCT_DETECTED", "bool", "write")
    [] n = "CentroidX"             -> TagDef("CENTROID_X", "real", "write")
    [] n = "CentroidY"             -> TagDef("CENTROID_Y", "real", "write")
    [] n = "Confidence"            -> TagDef("CONFIDENCE", "real", "write")
    [] n = "DetectionCount"        -> TagDef("DETECTION_COUNT", "int", "write")
    [] n = "ProcessingTime"        -> TagDef("PROCESSING_TIME", "real", "write")
    [] n = "VisionEchoAck"         -> TagDef("VisionCtrl_EchoAck", "bool", "write")
    [] n = "VisionDataSent"        -> TagDef("VisionCtrl_DataSent", "bool", "write")
    [] n = "VisionReadyForNext"    -> TagDef("VisionCtrl_ReadyForNext", "bool", "write")
    [] n = "SystemFault"           -> TagDef("SYSTEM_FAULT", "bool", "write")
    [] n = "RobotAck"              -> TagDef("ROBOT_ACK", "bool", "read")
    [] n = "RobotReady"            -> TagDef("ROBOT_READY", "bool", "read")
    [] n = "RobotError"            -> TagDef("ROBOT_ERROR", "bool", "read")
    [] n = "RobotBusy"             -> TagDef("RobotStatus_Busy", "bool", "read")
    [] n = "RobotPickComplete"     -> TagDef("RobotStatus_PickComplete", "bool", "read")
    [] n = "RobotPlaceComplete"    -> TagDef("RobotStatus_PlaceComplete", "bool", "read")
    [] n = "PlcAuthorizeDetection" -> TagDef("RobotCtrl_AuthorizeDetection", "bool", "read")
    [] n = "PlcCycleStart"         -> TagDef("RobotCtrl_CycleStart", "bool", "read")
    [] n = "PlcCycleComplete"      -> TagDef("RobotCtrl_CycleComplete", "bool", "read")
    [] n = "PlcEmergencyStop"      -> TagDef("RobotCtrl_EmergencyStop", "bool", "read")
    [] n = "PlcSystemMode"         -> TagDef("RobotCtrl_SystemMode", "int", "read")
    [] n = "Heartbeat"             -> TagDef("SystemStatus_Heartbeat", "bool", "read")
    [] n = "SystemMode"            -> TagDef("SystemStatus_Mode", "int", "read")
    [] n = "SafetyGateClosed"      -> TagDef("Safety_GateClosed", "bool", "read")
    [] n = "SafetyAreaClear"       -> TagDef("Safety_AreaClear", "bool", "read")
    [] n = "SafetyLightCurtainOK"  -> TagDef("Safety_LightCurtainOK", "bool", "read")
    [] n = "SafetyEmergencyStop"   -> TagDef("Safety_EmergencyStop", "bool", "read")]

\* TagSettings declares one non-empty string field per defined logical name;
\* _load_custom_mappings copies every such field.
custom_mappings == [n \in DefinedNames |-> DEFINITIONS[n].plc_name]

get_plc_name(logical_name) ==
  IF logical_name \in DOMAIN custom_mappings THEN custom_mappings[logical_name]
  ELSE IF logical_name \in DOMAIN DEFINITIONS THEN DEFINITIONS[logical_name].plc_name
  ELSE logical_name

is_valid_tag(logical_name) ==
  logical_name \in DOMAIN DEFINITIONS \/ logical_name \in DOMAIN custom_mappings

is_writable(logical_name) ==
  IF logical_name \in DOMAIN DEFINITIONS
  THEN DEFINITIONS[logical_name].direction \in {"write", "both"}
  ELSE TRUE

is_readable(logical_name) ==
  IF logical_name \in DOMAIN DEFINITIONS
  THEN DEFINITIONS[logical_name].direction \in {"read", "both"}
  ELSE TRUE

\* Python values carry their runtime type; bool is a subclass of int.
PyVal(t, v) == [t |-> t, v |-> v]
PyBool(b) == PyVal("bool", b)
PyInt(n) == PyVal("int", n)
PyFloat(n) == PyVal("float", n)
PyStr(s) == PyVal("str", s)

isinstance(value, types) ==
  \/ value.t \in types
  \/ value.t = "bool" /\ "int" \in types

TagDefinition_validate_value(tag_type, value) ==
  CASE tag_type = "bool"   -> isinstance(value, {"bool"})
    [] tag_type = "int"    -> isinstance(value, {"int"})
    [] tag_type = "real"   -> isinstance(value, {"int", "float"})
    [] tag_type = "string" -> isinstance(value, {"str"})
    [] OTHER -> TRUE

validate_value(logical_name, value) ==
  IF logical_name \in DOMAIN DEFINITIONS
  THEN TagDefinition_validate_value(DEFINITIONS[logical_name].tag_type, value)
  ELSE TRUE

(***************************************************************************)
(* ConnectionState                                                         *)
(***************************************************************************)
ConnectionStatus ==
  {"disconnected", "connecting", "connected", "degraded", "simulated", "error"}

is_connected(status) == status \in {"connected", "simulated"}

is_healthy(status, error_count) == status = "connected" /\ error_count = 0

(***************************************************************************)
(* SimulatedPLC                                                            *)
(***************************************************************************)
SimTagNames ==
  {"VisionCtrl_VisionReady", "VisionCtrl_VisionBusy", "VisionCtrl_VisionError",
   "VisionCtrl_Heartbeat", "PRODUCT_DETECTED", "CENTROID_X", "CENTROID_Y",
   "CONFIDENCE", "DETECTION_COUNT", "PROCESSING_TIME", "VisionCtrl_EchoAck",
   "VisionCtrl_DataSent", "VisionCtrl_ReadyForNext", "SYSTEM_FAULT",
   "ROBOT_ACK", "ROBOT_READY", "ROBOT_ERROR", "RobotStatus_Busy",
   "RobotStatus_PickComplete", "RobotStatus_PlaceComplete",
   "RobotCtrl_AuthorizeDetection", "RobotCtrl_CycleStart",
   "RobotCtrl_CycleComplete", "RobotCtrl_EmergencyStop", "RobotCtrl_SystemMode",
   "SystemStatus_Heartbeat", "SystemStatus_Mode",
   "Safety_GateClosed", "Safety_AreaClear", "Safety_LightCurtainOK",
   "Safety_EmergencyStop"}

SimInitialTags == [n \in SimTagNames |->
  CASE n \in {"CENTROID_X", "CENTROID_Y", "CONFIDENCE", "PROCESSING_TIME"} -> PyFloat(0)
    [] n = "DETECTION_COUNT" -> PyInt(0)
    [] n \in {"RobotCtrl_SystemMode", "SystemStatus_Mode"} -> PyInt(1)
    [] n \in {"ROBOT_READY", "RobotCtrl_AuthorizeDetection", "Safety_GateClosed",
              "Safety_AreaClear", "Safety_LightCurtainOK", "Safety_EmergencyStop"}
         -> PyBool(TRUE)
    [] OTHER -> PyBool(FALSE)]

SimTimerKinds == {"ack", "pick", "place", "cycle"}

\* SimulatedPLC.__init__: the tag store and no pending timer.  timers counts
\* the started threading.Timer objects of each kind that have not fired yet;
\* due tells of each of them, oldest first, whether its delay has elapsed
\* (followed only where the passing of the delays is part of the run)
SimulatedPLC ==
  [tags |-> SimInitialTags, timers |-> [k \in SimTimerKinds |-> 0],
   due |-> [k \in SimTimerKinds |-> <<>>]]

\* Python truthiness of a value
Truthy(value) ==
  CASE value.t = "bool" -> value.v
    [] value.t \in {"int", "float"} -> value.v # 0
    [] OTHER -> value.v # ""

SetTags(tags, names, value) ==
  [n \in (DOMAIN tags) \cup names |-> IF n \in names THEN value ELSE tags[n]]

Sim_read_variable(s, name) ==
  IF name \in DOMAIN s.tags THEN s.tags[name] ELSE PyInt(0)

ResetFlagNames ==
  {"ROBOT_ACK", "RobotStatus_Busy", "RobotStatus_PickComplete",
   "RobotStatus_PlaceComplete", "RobotCtrl_CycleStart", "PRODUCT_DETECTED",
   "VisionCtrl_EchoAck", "VisionCtrl_DataSent", "VisionCtrl_ReadyForNext"}

\* _reset_robot_flags that also clears ROBOT_READY
Sim_reset_robot_flags_ready(s) ==
  [s EXCEPT !.tags = SetTags(s.tags, ResetFlagNames \cup {"ROBOT_READY"}, PyBool(FALSE))]

Sim_reset_robot_flags(s) ==
  [s EXCEPT !.tags = SetTags(s.tags, ResetFlagNames, PyBool(FALSE))]

StartTimer(s, kind) ==
  [s EXCEPT !.timers[kind] = @ + 1, !.due[kind] = Append(@, FALSE)]

\* the timer a write starts, "none" when it starts no timer
TimerStartedBy(name, value) ==
  IF name = "PRODUCT_DETECTED" /\ Truthy(value) THEN "ack"
  ELSE IF name = "VisionCtrl_EchoAck" /\ Truthy(value) THEN "pick"
  ELSE "none"

Sim_write_variable(s, name, value) ==
  LET s1 == [s EXCEPT !.tags = SetTags(s.tags, {name}, value)] IN
  IF name = "PRODUCT_DETECTED" /\ Truthy(value) THEN StartTimer(s1, "ack")
  ELSE IF name = "VisionCtrl_EchoAck" /\ Truthy(value) THEN StartTimer(s1, "pick")
  ELSE IF name = "VisionCtrl_ReadyForNext" /\ Truthy(value) THEN Sim_reset_robot_flags(s1)
  ELSE s1

StopTimer(s, kind) == [s EXCEPT !.timers[kind] = @ - 1, !.due[kind] = Tail(@)]

Sim_simulate_robot_ack(s) ==
  [StopTimer(s, "ack") EXCEPT
     !.tags = SetTags(s.tags, {"ROBOT_ACK", "RobotStatus_Busy"}, PyBool(TRUE))]

\* _simulate_pick_complete that does not start the place timer
Sim_simulate_pick_complete_alone(s) ==
  [StopTimer(s, "pick") EXCEPT
     !.tags = SetTags(s.tags, {"RobotStatus_PickComplete"}, PyBool(TRUE))]

Sim_simulate_pick_complete(s) ==
  StartTimer([StopTimer(s, "pick") EXCEPT
     !.tags = SetTags(s.tags, {"RobotStatus_PickComplete"}, PyBool(TRUE))], "place")

\* _simulate_place_complete that leaves RobotStatus_Busy as it is
Sim_simulate_place_complete_busy(s) ==
  StartTimer([StopTimer(s, "place") EXCEPT
     !.tags = SetTags(s.tags, {"RobotStatus_PlaceComplete"}, PyBool(TRUE))], "cycle")

Sim_simulate_place_complete(s) ==
  StartTimer([StopTimer(s, "place") EXCEPT
     !.tags = SetTags(SetTags(s.tags, {"RobotStatus_PlaceComplete"}, PyBool(TRUE)),
                      {"RobotStatus_Busy"}, PyBool(FALSE))], "cycle")

Sim_simulate_cycle_complete(s) ==
  [StopTimer(s, "cycle") EXCEPT
     !.tags = SetTags(s.tags, {"RobotCtrl_CycleStart"}, PyBool(TRUE))]

(***************************************************************************)
(* CIPClient: state and synchronous helpers                                *)
(***************************************************************************)
NoRes == [kind |-> "none"]
OkRes(v) == [kind |-> "ok", val |-> v]
ExcRes(e) == [kind |-> "exc", exc |-> e]

\* CIPClient.__init__.  reconnect_timer tells whether _reconnect_timer refers
\* to a QTimer, timers counts the single-shot reconnect QTimers started and
\* not yet fired.  dev, raised, result, emitted and ret describe the last
\* step only: the device accesses it made, the exception it raised to its
\* caller, the outcome of the read_tag / write_tag it completed, the signals
\* it emitted and the value connect() returned in it.
CIPClientInit ==
  [status |-> "disconnected", error_count |-> 0, last_error |-> "None",
   is_simulated |-> FALSE, plc |-> FALSE, simulated_plc |-> FALSE,
   heartbeat_timer |-> FALSE, heartbeat_value |-> FALSE,
   reconnect_timer |-> FALSE, timers |-> 0, reconnect_attempts |-> 0,
   dev |-> <<>>, raised |-> "None", result |-> NoRes, emitted |-> <<>>,
   ret |-> "None"]

CipFresh(c) ==
  [c EXCEPT !.dev = <<>>, !.raised = "None", !.result = NoRes, !.emitted = <<>>,
            !.ret = "None"]

CipEmit(c, sig) == [c EXCEPT !.emitted = Append(@, sig)]

Cip_update_state(c, status) == CipEmit([c EXCEPT !.status = status], "state_changed")

\* _schedule_reconnect that starts a timer whether or not one is pending
Cip_schedule_reconnect_again(c) ==
  [c EXCEPT !.reconnect_timer = TRUE, !.timers = @ + 1]

Cip_schedule_reconnect(c) ==
  IF c.reconnect_timer THEN c
  ELSE [c EXCEPT !.reconnect_timer = TRUE, !.timers = @ + 1]

Cip_handle_error(c, error) ==
  LET c1 == [c EXCEPT !.error_count = @ + 1,
                      !.last_error = error]
      c2 == IF c1.error_count > DegradedThreshold /\ c1.status = "connected"
            THEN LET c3 == Cip_update_state(c1, "degraded") IN
                 IF AutoReconnect THEN Cip_schedule_reconnect(c3) ELSE c3
            ELSE c1
  IN CipEmit(c2, "connection_error")

Cip_start_heartbeat(c) ==
  IF c.heartbeat_timer THEN c ELSE [c EXCEPT !.heartbeat_timer = TRUE]

Cip_stop_heartbeat(c) == [c EXCEPT !.heartbeat_timer = FALSE]

(***************************************************************************)
(* CIPClient.read_tag / write_tag as a resumable call                      *)
(*   phase "call"  : the coroutine is about to enter read_tag / write_tag  *)
(*   phase "exec"  : the driver call runs in the executor (suspended)      *)
(*   phase "sleep" : asyncio.sleep(0.2) between two attempts (suspended)   *)
(***************************************************************************)
NoCall == [op |-> "none", name |-> "", value |-> PyBool(FALSE), attempt |-> 0, phase |-> "done"]

ReadCall(name) ==
  [op |-> "read", name |-> name, value |-> PyBool(FALSE), attempt |-> 0, phase |-> "call"]

WriteCall(name, value) ==
  [op |-> "write", name |-> name, value |-> value, attempt |-> 0, phase |-> "call"]

\* driver outcomes of one executor call: a value (reads), completion (writes)
\* or an exception
DriverOutcomes(call) ==
  IF call.op = "read"
  THEN {OkRes(PyBool(TRUE)), OkRes(PyBool(FALSE)), ExcRes("driver")}
  ELSE {OkRes(PyBool(TRUE)), ExcRes("driver")}

\* read_tag with the whitelist consulted before the connection
read_tag_check_whitelist_first(c, logical_name) ==
  IF ~is_valid_tag(logical_name) THEN "TagError"
  ELSE IF ~is_readable(logical_name) THEN "TagError"
  ELSE IF ~is_connected(c.status) THEN "ConnectionError"
  ELSE "ok"

\* validation at the head of read_tag: connectivity first, then the whitelist
read_tag_check(c, logical_name) ==
  IF ~is_connected(c.status) THEN "ConnectionError"
  ELSE IF ~is_valid_tag(logical_name) THEN "TagError"
  ELSE IF ~is_readable(logical_name) THEN "TagError"
  ELSE "ok"

\* write_tag without the type check of the value
write_tag_check_untyped(c, logical_name, value) ==
  IF ~is_connected(c.status) THEN "ConnectionError"
  ELSE IF ~is_valid_tag(logical_name) THEN "TagError"
  ELSE IF ~is_writable(logical_name) THEN "TagError"
  ELSE "ok"

\* validation at the head of write_tag
write_tag_check(c, logical_name, value) ==
  IF ~is_connected(c.status) THEN "ConnectionError"
  ELSE IF ~is_valid_tag(logical_name) THEN "TagError"
  ELSE IF ~is_writable(logical_name) THEN "TagError"
  ELSE IF ~validate_value(logical_name, value) THEN "TagError"
  ELSE "ok"

tag_check(c, call) ==
  IF call.op = "read" THEN read_tag_check(c, call.name)
  ELSE write_tag_check(c, call.name, call.value)

IoOut(c, s, call, res) ==
  [cip |-> [c EXCEPT !.result = res], sim |-> s, call |-> call, res |-> res]

max_attempts == 1 + IoRetries

\* an except branch that counts every failed attempt
FailAttempt_each(c, s, call) ==
  IF call.attempt < max_attempts - 1
  THEN IoOut(Cip_handle_error(c, "io"), s,
             [call EXCEPT !.attempt = @ + 1, !.phase = "sleep"], NoRes)
  ELSE IoOut([Cip_handle_error(c, "io") EXCEPT !.raised = "TagError"], s, NoCall,
             ExcRes("TagError"))

\* the except branch of the retry loop
FailAttempt(c, s, call) ==
  IF call.attempt < max_attempts - 1
  THEN IoOut(c, s, [call EXCEPT !.attempt = @ + 1, !.phase = "sleep"], NoRes)
  ELSE IoOut([Cip_handle_error(c, "io") EXCEPT !.raised = "TagError"], s, NoCall,
             ExcRes("TagError"))

\* successful end of an attempt: tag_read / tag_written is emitted
SucceedAttempt(c, s, call, v) ==
  IoOut(CipEmit(c, IF call.op = "read" THEN "tag_read" ELSE "tag_written"), s, NoCall,
        OkRes(v))

\* one pass of the loop body up to its first suspension
Attempt(c, s, call) ==
  LET plc_name == get_plc_name(call.name) IN
  IF c.simulated_plc
  THEN LET c1 == [c EXCEPT !.dev = Append(@, <<"sim", call.op, plc_name>>)] IN
       IF call.op = "read"
       THEN SucceedAttempt(c1, s, call, Sim_read_variable(s, plc_name))
       ELSE SucceedAttempt(c1, Sim_write_variable(s, plc_name, call.value), call,
                           PyBool(TRUE))
  ELSE IF c.plc
  THEN IoOut([c EXCEPT !.dev = Append(@, <<"real", call.op, plc_name>>)], s,
             [call EXCEPT !.phase = "exec"], NoRes)
  ELSE FailAttempt(c, s, call)

\* entry of read_tag / write_tag
EnterCall(c, s, call) ==
  LET chk == tag_check(c, call) IN
  IF chk # "ok" THEN IoOut([c EXCEPT !.raised = chk], s, NoCall, ExcRes(chk))
  ELSE Attempt(c, s, call)

\* the executor call returns with outcome o
FinishExec(c, s, call, o) ==
  IF o.kind = "ok" THEN SucceedAttempt(c, s, call, o.val)
  ELSE FailAttempt(c, s, call)

\* outcomes the environment may choose at this position of the call
IoChoices(call, nfaults) ==
  IF call.phase # "exec" THEN {NoRes}
  ELSE {o \in DriverOutcomes(call) : o.kind = "exc" => nfaults < MaxFaults}

\* the call advances to its next suspension or to its result
IoStep(c, s, call, o) ==
  CASE call.phase = "call"  -> EnterCall(c, s, call)
    [] call.phase = "sleep" -> Attempt(c, s, call)
    [] call.phase = "exec"  -> FinishExec(c, s, call, o)

\* a simulated write that starts a timer waits for room among the timers
IoEnabled(c, s, call) ==
  LET k == TimerStartedBy(get_plc_name(call.name), call.value) IN
  IF call.phase = "exec" \/ ~c.simulated_plc \/ call.op # "write" \/ k = "none"
  THEN TRUE
  ELSE s.timers[k] < MaxSimTimers

\* a coroutine at this position can be overtaken by other callbacks
Suspended(call) == call.phase \in {"exec", "sleep", "done"}

(***************************************************************************)
(* RobotController: states, transition table and synchronous helpers       *)
(***************************************************************************)
RobotControlState ==
  {"INITIALIZING", "WAITING_AUTHORIZATION", "DETECTING",
   "WAITING_SEND_AUTHORIZATION", "SENDING_DATA", "WAITING_ACK", "ACK_CONFIRMED",
   "WAITING_PICK", "WAITING_PLACE", "WAITING_CYCLE_START", "READY_FOR_NEXT",
   "ERROR", "TIMEOUT", "SAFETY_BLOCKED", "STOPPED"}

VALID_TRANSITIONS == [st \in RobotControlState |->
  CASE st = "STOPPED" -> {"INITIALIZING"}
    [] st = "INITIALIZING" -> {"WAITING_AUTHORIZATION", "ERROR", "STOPPED"}
    [] st = "WAITING_AUTHORIZATION" -> {"DETECTING", "ERROR", "SAFETY_BLOCKED", "STOPPED"}
    [] st = "DETECTING" -> {"SENDING_DATA", "WAITING_SEND_AUTHORIZATION",
                            "WAITING_AUTHORIZATION", "ERROR", "STOPPED"}
    [] st = "WAITING_SEND_AUTHORIZATION" -> {"SENDING_DATA", "ERROR", "STOPPED"}
    [] st = "SENDING_DATA" -> {"WAITING_ACK", "ERROR", "STOPPED"}
    [] st = "WAITING_ACK" -> {"ACK_CONFIRMED", "TIMEOUT", "ERROR", "STOPPED"}
    [] st = "ACK_CONFIRMED" -> {"WAITING_PICK", "ERROR", "STOPPED"}
    [] st = "WAITING_PICK" -> {"WAITING_PLACE", "TIMEOUT", "ERROR", "STOPPED"}
    [] st = "WAITING_PLACE" -> {"WAITING_CYCLE_START", "TIMEOUT", "ERROR", "STOPPED"}
    [] st = "WAITING_CYCLE_START" -> {"READY_FOR_NEXT", "ERROR", "STOPPED"}
    [] st = "READY_FOR_NEXT" -> {"WAITING_AUTHORIZATION", "STOPPED"}
    [] st = "ERROR" -> {"INITIALIZING", "STOPPED"}
    [] st = "TIMEOUT" -> {"WAITING_AUTHORIZATION", "ERROR", "STOPPED"}
    [] st = "SAFETY_BLOCKED" -> {"WAITING_AUTHORIZATION", "STOPPED"}]

\* DetectionEvent as delivered by the detection pipeline; None is the empty slot
None == [present |-> FALSE]

DetectionEvent(detected) ==
  [present |-> TRUE, detected |-> detected,
   centroid_x |-> PyFloat(10), centroid_y |-> PyFloat(20), confidence |-> PyFloat(1),
   detection_count |-> PyInt(1), inference_time_ms |-> PyFloat(12)]

\* DetectionEvent.to_plc_data followed by the argument order of
\* write_detection_result: the k-th write of the payload
PayloadWrite(event, k) ==
  CASE k = 1 -> WriteCall("ProductDetected", PyBool(event.detected))
    [] k = 2 -> WriteCall("CentroidX", event.centroid_x)
    [] k = 3 -> WriteCall("CentroidY", event.centroid_y)
    [] k = 4 -> WriteCall("Confidence", event.confidence)
    [] k = 5 -> WriteCall("DetectionCount", event.detection_count)
    [] k = 6 -> WriteCall("ProcessingTime", event.inference_time_ms)
    [] k = 7 -> WriteCall("VisionDataSent", PyBool(TRUE))

PayloadLen == 7

\* RobotController.__init__.  emitted, reqs and ret describe the last step
\* only: the signals it emitted, the transitions it requested and the value
\* start() returned in it.
RobotControllerInit ==
  [state |-> "STOPPED", previous_state |-> "STOPPED", elapsed |-> 0,
   last_error |-> "None", cycle_count |-> 0, current_detection |-> None,
   poll_timer |-> FALSE, is_running |-> FALSE, processing |-> FALSE,
   cycle_mode |-> "manual", user_cycle_authorized |-> FALSE,
   user_send_authorized |-> FALSE, cycle_steps |-> <<>>,
   emitted |-> <<>>, reqs |-> <<>>, ret |-> "None"]

RcFresh(r) == [r EXCEPT !.emitted = <<>>, !.reqs = <<>>, !.ret = "None"]

RcEmit(r, sig) == [r EXCEPT !.emitted = Append(@, sig)]

Request(from, to, accepted) == [from |-> from, to |-> to, accepted |-> accepted]

\* _transition_to without the look-up in VALID_TRANSITIONS
Rc_transition_to_unchecked(r, new_state) ==
  RcEmit([r EXCEPT !.previous_state = r.state, !.state = new_state, !.elapsed = 0,
                   !.reqs = Append(@, Request(r.state, new_state, TRUE))],
         "state_changed")

\* _transition_to that validates in every state but STOPPED
Rc_transition_to_stopped_open(r, new_state) ==
  IF r.state # "STOPPED" /\ new_state \notin VALID_TRANSITIONS[r.state]
     /\ r.state # new_state
  THEN [r EXCEPT !.reqs = Append(@, Request(r.state, new_state, FALSE))]
  ELSE RcEmit([r EXCEPT !.previous_state = r.state, !.state = new_state,
                        !.elapsed = 0,
                        !.reqs = Append(@, Request(r.state, new_state, TRUE))],
              "state_changed")

Rc_transition_to(r, new_state) ==
  IF new_state \notin VALID_TRANSITIONS[r.state] /\ r.state # new_state
  THEN [r EXCEPT !.reqs = Append(@, Request(r.state, new_state, FALSE))]
  ELSE RcEmit([r EXCEPT !.previous_state = r.state, !.state = new_state,
                        !.elapsed = 0,
                        !.reqs = Append(@, Request(r.state, new_state, TRUE))],
              "state_changed")

\* _handle_exception that assigns ERROR instead of requesting it
Rc_handle_exception_forced(r, error) ==
  RcEmit([RcEmit([r EXCEPT !.last_error = error], "error_occurred")
            EXCEPT !.previous_state = r.state, !.state = "ERROR", !.elapsed = 0,
                   !.reqs = Append(@, Request(r.state, "ERROR", TRUE))],
         "state_changed")

Rc_handle_exception(r, error) ==
  Rc_transition_to(RcEmit([r EXCEPT !.last_error = error], "error_occurred"), "ERROR")

Rc_record_step(r, step_name) ==
  RcEmit([r EXCEPT !.cycle_steps = Append(@, step_name)], "cycle_step")

(***************************************************************************)
(* RobotController: the state handlers as resumable coroutines.            *)
(* A handler runs until it suspends (Await) or ends (Finish); when the     *)
(* awaited call delivers its result the handler resumes at its site.       *)
(***************************************************************************)
SleepCall ==
  [op |-> "sleep", name |-> "", value |-> PyBool(FALSE), attempt |-> 0, phase |-> "sleep"]

\* seen lists the outcomes of the calls the handler has completed in this tick
Idle == [site |-> "idle", k |-> 0, call |-> NoCall, data |-> None, seen |-> <<>>]

ResKind(res) ==
  IF res.kind = "exc" THEN "exc" ELSE IF Truthy(res.val) THEN "true" ELSE "false"

HOut(r, hh) == [rc |-> r, h |-> hh]

\* _process_current_state without its finally clause
Finish_without_finally(r) == HOut(r, Idle)

\* the finally clause of _process_current_state
Finish(r) == HOut([r EXCEPT !.processing = FALSE], Idle)

Await(r, site, k, call, data) ==
  HOut(r, [site |-> site, k |-> k, call |-> call, data |-> data, seen |-> <<>>])

ResIsTrue(res) == res.kind = "ok" /\ Truthy(res.val)

\* _check_safety applied to the outcome of its read: a failed read is "safe"
check_safety(res) == ~ResIsTrue(res)

Rc_handle_initializing(r, c) ==
  IF ~is_connected(c.status)
  THEN Await(r, "init_sleep", 0, SleepCall, None)
  ELSE Finish(Rc_transition_to(r, "WAITING_AUTHORIZATION"))

Rc_handle_waiting_authorization(r, c) ==
  IF ~is_connected(c.status)
  THEN Finish(Rc_transition_to(r, "INITIALIZING"))
  ELSE Await(r, "wa_emergency", 0, ReadCall("PlcEmergencyStop"), None)

\* _handle_waiting_authorization that reads the authorization whatever
\* _check_safety returned
Rc_waiting_authorization_safety_ignored(r, res) ==
  Await(r, "wa_authorize", 0, ReadCall("PlcAuthorizeDetection"), None)

Rc_waiting_authorization_safety(r, res) ==
  IF ~check_safety(res)
  THEN Finish(Rc_transition_to(r, "SAFETY_BLOCKED"))
  ELSE Await(r, "wa_authorize", 0, ReadCall("PlcAuthorizeDetection"), None)

Rc_waiting_authorization_authorized(r, res) ==
  IF ResIsTrue(res) THEN Finish(Rc_transition_to(r, "DETECTING")) ELSE Finish(r)

Rc_handle_waiting_send_authorization(r) ==
  IF r.user_send_authorized
  THEN Finish(Rc_transition_to([r EXCEPT !.user_send_authorized = FALSE], "SENDING_DATA"))
  ELSE Finish(r)

Rc_handle_sending_data(r, c) ==
  IF ~r.current_detection.present
  THEN Finish(Rc_transition_to(r, "WAITING_AUTHORIZATION"))
  ELSE IF ~is_connected(c.status)
  THEN Finish(Rc_handle_exception(r, "not_connected"))
  ELSE Await(r, "sd_write", 1, PayloadWrite(r.current_detection, 1), r.current_detection)

\* the statements of _handle_sending_data after write_detection_result returned
Rc_sending_data_sent(r) ==
  Finish(Rc_transition_to(RcEmit(Rc_record_step(r, "sent"), "detection_sent"),
                          "WAITING_ACK"))

\* write_detection_result that goes on with the next write after a failure
Rc_sending_data_written_through(r, k, data, res) ==
  IF k < PayloadLen
  THEN Await(r, "sd_write", k + 1, PayloadWrite(data, k + 1), data)
  ELSE Rc_sending_data_sent(r)

\* write_detection_result after its k-th write: the next write, or the return
\* (True after the last write, False from the except clause); the caller
\* does not look at the returned value
Rc_sending_data_written(r, k, data, res) ==
  IF res.kind = "ok" /\ k < PayloadLen
  THEN Await(r, "sd_write", k + 1, PayloadWrite(data, k + 1), data)
  ELSE Rc_sending_data_sent(r)

\* _handle_waiting_ack that gives up as soon as ack_timeout is reached
Rc_handle_waiting_ack_hasty(r) ==
  IF r.elapsed >= AckTimeout
  THEN Finish(Rc_transition_to(r, "TIMEOUT"))
  ELSE Await(r, "wk_ack", 0, ReadCall("RobotAck"), None)

Rc_handle_waiting_ack(r) ==
  IF r.elapsed > AckTimeout
  THEN Finish(Rc_transition_to(r, "TIMEOUT"))
  ELSE Await(r, "wk_ack", 0, ReadCall("RobotAck"), None)

Rc_waiting_ack_read(r, res) ==
  IF ResIsTrue(res)
  THEN Finish(Rc_transition_to(Rc_record_step(r, "ack"), "ACK_CONFIRMED"))
  ELSE Finish(r)

Rc_handle_ack_confirmed(r) ==
  Await(r, "ac_echo", 0, WriteCall("VisionEchoAck", PyBool(TRUE)), None)

Rc_ack_confirmed_written(r, res) ==
  IF res.kind = "ok" THEN Finish(Rc_transition_to(r, "WAITING_PICK"))
  ELSE Finish(Rc_handle_exception(r, res.exc))

Rc_handle_waiting_pick(r) ==
  IF r.elapsed > PickTimeout
  THEN Finish(Rc_transition_to(r, "TIMEOUT"))
  ELSE Await(r, "wp_pick", 0, ReadCall("RobotPickComplete"), None)

\* _handle_waiting_pick whose except clause takes the failure path
Rc_waiting_pick_read_failing(r, res) ==
  IF res.kind = "exc" THEN Finish(Rc_handle_exception(r, res.exc))
  ELSE IF ResIsTrue(res)
  THEN Finish(Rc_transition_to(Rc_record_step(r, "pick"), "WAITING_PLACE"))
  ELSE Finish(r)

Rc_waiting_pick_read(r, res) ==
  IF ResIsTrue(res)
  THEN Finish(Rc_transition_to(Rc_record_step(r, "pick"), "WAITING_PLACE"))
  ELSE Finish(r)

\* _handle_waiting_place without the test of the deadline
Rc_handle_waiting_place_patient(r) ==
  Await(r, "wl_place", 0, ReadCall("RobotPlaceComplete"), None)

Rc_handle_waiting_place(r) ==
  IF r.elapsed > PlaceTimeout
  THEN Finish(Rc_transition_to(r, "TIMEOUT"))
  ELSE Await(r, "wl_place", 0, ReadCall("RobotPlaceComplete"), None)

Rc_waiting_place_read(r, res) ==
  IF ResIsTrue(res)
  THEN Finish(Rc_transition_to(Rc_record_step(r, "place"), "WAITING_CYCLE_START"))
  ELSE Finish(r)

Rc_handle_waiting_cycle_start(r) ==
  Await(r, "wc_read", 0, ReadCall("PlcCycleStart"), None)

Rc_waiting_cycle_start_read(r, res) ==
  IF ResIsTrue(res)
  THEN LET r1 == Rc_record_step(r, "complete")
           r2 == RcEmit([r1 EXCEPT !.cycle_count = @ + 1], "cycle_completed")
           r3 == [RcEmit(r2, "cycle_summary") EXCEPT !.cycle_steps = <<>>]
       IN Await(r3, "wc_echo", 0, WriteCall("VisionEchoAck", PyBool(FALSE)), None)
  ELSE Finish(r)

\* end of the cleanup in _handle_waiting_cycle_start
Rc_waiting_cycle_start_finish(r) ==
  Finish(Rc_transition_to([r EXCEPT !.current_detection = None], "READY_FOR_NEXT"))

\* _handle_waiting_cycle_start whose cleanup writes are not guarded
Rc_waiting_cycle_start_echo_fatal(r, res) ==
  IF res.kind = "ok"
  THEN Await(r, "wc_ready", 0, WriteCall("VisionReadyForNext", PyBool(TRUE)), None)
  ELSE Finish(Rc_handle_exception(r, res.exc))

Rc_waiting_cycle_start_echo(r, res) ==
  IF res.kind = "ok"
  THEN Await(r, "wc_ready", 0, WriteCall("VisionReadyForNext", PyBool(TRUE)), None)
  ELSE Rc_waiting_cycle_start_finish(r)

\* _handle_ready_for_next that leaves user_cycle_authorized set
Rc_handle_ready_for_next_flag_kept(r) ==
  IF r.cycle_mode = "continuous" \/ r.user_cycle_authorized
  THEN Finish(Rc_transition_to(r, "WAITING_AUTHORIZATION"))
  ELSE Finish(r)

Rc_handle_ready_for_next(r) ==
  IF r.cycle_mode = "continuous"
  THEN Finish(Rc_transition_to(r, "WAITING_AUTHORIZATION"))
  ELSE IF r.user_cycle_authorized
  THEN Finish(Rc_transition_to([r EXCEPT !.user_cycle_authorized = FALSE],
                               "WAITING_AUTHORIZATION"))
  ELSE Finish(r)

\* _handle_error that does not wait
Rc_handle_error_at_once(r) == Finish(Rc_transition_to(r, "INITIALIZING"))

Rc_handle_error(r) ==
  IF r.elapsed > ErrorDwell THEN Finish(Rc_transition_to(r, "INITIALIZING"))
  ELSE Finish(r)

Rc_handle_timeout(r) == Await(r, "to_sleep", 0, SleepCall, None)

Rc_timeout_woken(r) == Finish(Rc_transition_to(r, "WAITING_AUTHORIZATION"))

Rc_handle_safety_blocked(r) ==
  Await(r, "sb_emergency", 0, ReadCall("PlcEmergencyStop"), None)

Rc_safety_blocked_read(r, res) ==
  IF check_safety(res) THEN Finish(Rc_transition_to(r, "WAITING_AUTHORIZATION"))
  ELSE Finish(r)

\* the dispatch of _process_current_state once processing is set
Dispatch(r, c) ==
  CASE r.state = "INITIALIZING" -> Rc_handle_initializing(r, c)
    [] r.state = "WAITING_AUTHORIZATION" -> Rc_handle_waiting_authorization(r, c)
    [] r.state = "WAITING_SEND_AUTHORIZATION" -> Rc_handle_waiting_send_authorization(r)
    [] r.state = "SENDING_DATA" -> Rc_handle_sending_data(r, c)
    [] r.state = "WAITING_ACK" -> Rc_handle_waiting_ack(r)
    [] r.state = "ACK_CONFIRMED" -> Rc_handle_ack_confirmed(r)
    [] r.state = "WAITING_PICK" -> Rc_handle_waiting_pick(r)
    [] r.state = "WAITING_PLACE" -> Rc_handle_waiting_place(r)
    [] r.state = "WAITING_CYCLE_START" -> Rc_handle_waiting_cycle_start(r)
    [] r.state = "READY_FOR_NEXT" -> Rc_handle_ready_for_next(r)
    [] r.state = "ERROR" -> Rc_handle_error(r)
    [] r.state = "TIMEOUT" -> Rc_handle_timeout(r)
    [] r.state = "SAFETY_BLOCKED" -> Rc_handle_safety_blocked(r)
    [] OTHER -> Finish(r)

\* the handler suspended at site resumes with the result of its call
Resume(r, hh, res) ==
  CASE hh.site = "init_sleep" -> Finish(r)
    [] hh.site = "wa_emergency" -> Rc_waiting_authorization_safety(r, res)
    [] hh.site = "wa_authorize" -> Rc_waiting_authorization_authorized(r, res)
    [] hh.site = "sd_write" -> Rc_sending_data_written(r, hh.k, hh.data, res)
    [] hh.site = "wk_ack" -> Rc_waiting_ack_read(r, res)
    [] hh.site = "ac_echo" -> Rc_ack_confirmed_written(r, res)
    [] hh.site = "wp_pick" -> Rc_waiting_pick_read(r, res)
    [] hh.site = "wl_place" -> Rc_waiting_place_read(r, res)
    [] hh.site = "wc_read" -> Rc_waiting_cycle_start_read(r, res)
    [] hh.site = "wc_echo" -> Rc_waiting_cycle_start_echo(r, res)
    [] hh.site = "wc_ready" -> Rc_waiting_cycle_start_finish(r)
    [] hh.site = "to_sleep" -> Rc_timeout_woken(r)
    [] hh.site = "sb_emergency" -> Rc_safety_blocked_read(r, res)

(***************************************************************************)
(* State                                                                   *)
(***************************************************************************)
VARIABLES
  rc,     \* the RobotController object
  cip,    \* the CIPClient object with its ConnectionState
  sim,    \* the SimulatedPLC referenced by cip._simulated_plc
  h,      \* position of the state handler started by the last tick
  tasks,  \* _process_current_state tasks created and not yet started
  poll,   \* "skipped" / "returned" when the last step dropped a tick
  conn,   \* position of the connect() / disconnect() coroutine
  faults, \* read_tag / write_tag calls that failed after their last attempt
  ops,    \* calls made by the operator and the application so far
  ext,    \* a read_tag / write_tag call made by another client of CIPClient
  bg      \* the tasks CIPClient creates itself: heartbeat write and reconnect

vars == <<rc, cip, sim, h, tasks, poll, conn, faults, ops, ext, bg>>

\* positions of a _try_reconnect task: created, awaiting the close call of
\* the driver in disconnect(), in asyncio.sleep(0.5), awaiting the driver
\* connect in connect()
RecPos == {"created", "closing", "sleep", "connecting"}

\* hb: the write_tag created by _send_heartbeat; hb_faults: heartbeat writes
\* that failed after their last attempt; rec: _try_reconnect tasks by position
BgIdle == [hb |-> NoCall, hb_faults |-> 0, rec |-> [p \in RecPos |-> 0]]

\* call: the call in flight; req, started: the call as it was made and whether
\* it was made in the last step; res: the outcome delivered in the last step
ExtIdle == [call |-> NoCall, req |-> NoCall, started |-> FALSE, res |-> NoRes]

KeepExt == ext' = [ext EXCEPT !.started = FALSE, !.res = NoRes]

(***************************************************************************)
(* CIPClient: the ends of connect() and disconnect()                       *)
(***************************************************************************)
\* _connect_simulated that leaves the heartbeat alone
Cip_connect_simulated_quiet(c) ==
  [CipEmit(Cip_update_state([c EXCEPT !.simulated_plc = TRUE, !.is_simulated = TRUE],
                            "simulated"), "connected")
     EXCEPT !.ret = "True"]

Cip_connect_simulated(c) ==
  [CipEmit(Cip_start_heartbeat(
             Cip_update_state([c EXCEPT !.simulated_plc = TRUE, !.is_simulated = TRUE],
                              "simulated")), "connected")
     EXCEPT !.ret = "True"]

\* the driver connected
Cip_connect_real(c) ==
  [CipEmit(Cip_start_heartbeat(Cip_update_state([c EXCEPT !.plc = TRUE], "connected")),
           "connected")
     EXCEPT !.ret = "True"]

\* the end of disconnect()
Cip_disconnect_finish(c) ==
  CipEmit(Cip_update_state([c EXCEPT !.plc = FALSE, !.simulated_plc = FALSE],
                           "disconnected"), "disconnected")

Init ==
  /\ rc = RobotControllerInit
  /\ cip = CIPClientInit
  /\ sim = SimulatedPLC
  /\ h = Idle
  /\ tasks = 0
  /\ poll = "none"
  /\ conn = "idle"
  /\ faults = 0
  /\ ops = 0
  /\ ext = ExtIdle
  /\ bg = BgIdle

\* no coroutine is in the middle of a synchronous stretch of code
Interleavable == Suspended(h.call) /\ Suspended(ext.call)

(***************************************************************************)
(* RobotController: public operations                                      *)
(***************************************************************************)
\* start() without the test of is_running
Rc_start_again(r) ==
  [Rc_transition_to([r EXCEPT !.is_running = TRUE], "INITIALIZING")
     EXCEPT !.poll_timer = TRUE, !.ret = "True"]

Rc_start(r) ==
  IF r.is_running THEN [r EXCEPT !.ret = "True"]
  ELSE [Rc_transition_to([r EXCEPT !.is_running = TRUE], "INITIALIZING")
          EXCEPT !.poll_timer = TRUE, !.ret = "True"]

Rc_stop(r) ==
  Rc_transition_to([r EXCEPT !.is_running = FALSE, !.poll_timer = FALSE], "STOPPED")

\* reset() without the test of is_running
Rc_reset_unguarded(r) ==
  Rc_transition_to([r EXCEPT !.last_error = "None", !.current_detection = None],
                   "INITIALIZING")

Rc_reset(r) ==
  LET r1 == [r EXCEPT !.last_error = "None", !.current_detection = None] IN
  IF r1.is_running THEN Rc_transition_to(r1, "INITIALIZING") ELSE r1

Rc_set_cycle_mode(r, mode) ==
  IF mode \notin {"manual", "continuous"} THEN r ELSE [r EXCEPT !.cycle_mode = mode]

\* process_detection without the test of the state
Rc_process_detection_any_state(r, event) ==
  LET r1 == [r EXCEPT !.current_detection = event] IN
  IF event.detected
  THEN LET r2 == Rc_record_step(r1, "detect") IN
       IF r2.cycle_mode = "manual"
       THEN Rc_transition_to(r2, "WAITING_SEND_AUTHORIZATION")
       ELSE Rc_transition_to(r2, "SENDING_DATA")
  ELSE r1

Rc_process_detection(r, event) ==
  IF r.state # "DETECTING" THEN r
  ELSE LET r1 == [r EXCEPT !.current_detection = event] IN
       IF event.detected
       THEN LET r2 == Rc_record_step(r1, "detect") IN
            IF r2.cycle_mode = "manual"
            THEN Rc_transition_to(r2, "WAITING_SEND_AUTHORIZATION")
            ELSE Rc_transition_to(r2, "SENDING_DATA")
       ELSE r1

\* a call of the operator or the application is counted
Op == ops < MaxOps /\ ops' = ops + 1

\* a step of the controller alone
RcOnly(r) ==
  /\ Interleavable
  /\ rc' = r
  /\ cip' = CipFresh(cip)
  /\ poll' = "none"
  /\ KeepExt
  /\ UNCHANGED <<sim, h, tasks, conn, faults, bg>>

Start == Op /\ RcOnly(Rc_start(RcFresh(rc)))

Stop == Op /\ RcOnly(Rc_stop(RcFresh(rc)))

Reset == Op /\ RcOnly(Rc_reset(RcFresh(rc)))

SetCycleMode == \E mode \in {"manual", "continuous", "auto"} :
  Op /\ RcOnly(Rc_set_cycle_mode(RcFresh(rc), mode))

AuthorizeNextCycle == Op /\ RcOnly([RcFresh(rc) EXCEPT !.user_cycle_authorized = TRUE])

AuthorizeSendToPlc == Op /\ RcOnly([RcFresh(rc) EXCEPT !.user_send_authorized = TRUE])

ProcessDetection == \E detected \in BOOLEAN :
  /\ detected => rc.cycle_count < MaxCycles /\ Len(rc.cycle_steps) < MaxStaleSteps
  /\ RcOnly(Rc_process_detection(RcFresh(rc), DetectionEvent(detected)))
  /\ ops' = ops

\* the clock advances; elapsed is now - _state_enter_time
AdvanceTime == \E t \in TimeMarks(rc.state) :
  /\ rc.elapsed < t
  /\ RcOnly([RcFresh(rc) EXCEPT !.elapsed = t])
  /\ ops' = ops

(***************************************************************************)
(* RobotController: the tick and the handler in flight                     *)
(***************************************************************************)
\* _poll_cycle, fired by the poll timer
PollCycle ==
  /\ rc.poll_timer
  /\ Interleavable
  /\ IF ~rc.is_running THEN poll' = "none" /\ tasks' = tasks
     ELSE IF rc.processing THEN poll' = "skipped" /\ tasks' = tasks
     ELSE tasks < MaxTasks /\ poll' = "none" /\ tasks' = tasks + 1
  /\ rc' = RcFresh(rc)
  /\ cip' = CipFresh(cip)
  /\ KeepExt
  /\ UNCHANGED <<sim, h, conn, faults, ops, bg>>

\* the task created by _poll_cycle starts: _process_current_state up to the
\* first suspension of the handler
ProcessCurrentState ==
  /\ tasks > 0
  /\ Interleavable
  /\ tasks' = tasks - 1
  /\ cip' = CipFresh(cip)
  /\ IF rc.processing
     THEN /\ poll' = "returned"
          /\ rc' = RcFresh(rc)
          /\ h' = h
     ELSE LET out == Dispatch([RcFresh(rc) EXCEPT !.processing = TRUE], cip) IN
          /\ poll' = "none"
          /\ rc' = out.rc
          /\ h' = out.h
  /\ KeepExt
  /\ UNCHANGED <<sim, conn, faults, ops, bg>>

\* the read_tag / write_tag awaited by the handler advances; when it delivers
\* its result the handler resumes
HandlerIo ==
  /\ h.call.op \in {"read", "write"}
  /\ Suspended(ext.call)
  /\ IoEnabled(cip, sim, h.call)
  /\ \E o \in IoChoices(h.call, faults) :
       LET out == IoStep(CipFresh(cip), sim, h.call, o) IN
       /\ faults' = IF out.cip.error_count > cip.error_count THEN faults + 1 ELSE faults
       /\ cip' = out.cip
       /\ sim' = out.sim
       /\ IF out.res.kind = "none"
          THEN /\ rc' = RcFresh(rc)
               /\ h' = [h EXCEPT !.call = out.call]
          ELSE LET ho == Resume(RcFresh(rc), h, out.res) IN
               /\ rc' = ho.rc
               /\ h' = IF ho.h.site = "idle" THEN ho.h
                       ELSE [ho.h EXCEPT !.seen = Append(h.seen, ResKind(out.res))]
  /\ poll' = "none"
  /\ KeepExt
  /\ UNCHANGED <<tasks, conn, ops, bg>>

\* the asyncio.sleep awaited by the handler is over
HandlerWake ==
  /\ h.call.op = "sleep"
  /\ Suspended(ext.call)
  /\ LET ho == Resume(RcFresh(rc), h, NoRes) IN
     /\ rc' = ho.rc
     /\ h' = ho.h
  /\ cip' = CipFresh(cip)
  /\ poll' = "none"
  /\ KeepExt
  /\ UNCHANGED <<sim, tasks, conn, faults, ops, bg>>

(***************************************************************************)
(* CIPClient: connect and disconnect                                       *)
(***************************************************************************)
CipOnly ==
  /\ Interleavable
  /\ rc' = RcFresh(rc)
  /\ poll' = "none"
  /\ KeepExt
  /\ UNCHANGED <<h, tasks, faults, bg>>

\* connect() up to the driver connect; settings.cip.simulated is read anew
ConnectBeginWith(simulated) ==
  /\ conn = "idle"
  /\ ~is_connected(cip.status)
  /\ Op
  /\ CipOnly
  /\ LET c1 == Cip_update_state(CipFresh(cip), "connecting") IN
     IF simulated
     THEN cip' = Cip_connect_simulated(c1) /\ sim' = SimulatedPLC /\ conn' = "idle"
     ELSE cip' = c1 /\ sim' = sim /\ conn' = "connecting"

ConnectBegin == \E simulated \in BOOLEAN : ConnectBeginWith(simulated)

\* _connect_sync returned a handle, or raised and connect() falls back
ConnectEndWith(success) ==
  /\ conn = "connecting"
  /\ ops' = ops
  /\ CipOnly
  /\ conn' = "idle"
  /\ IF success
     THEN cip' = Cip_connect_real(CipFresh(cip)) /\ sim' = sim
     ELSE cip' = Cip_connect_simulated(CipFresh(cip)) /\ sim' = SimulatedPLC

ConnectEnd == \E success \in BOOLEAN : ConnectEndWith(success)

\* disconnect() up to the close call of the driver, which exists or not
DisconnectBegin == \E has_close \in BOOLEAN :
  /\ conn = "idle"
  /\ cip.status # "disconnected"
  /\ Op
  /\ CipOnly
  /\ LET c1 == Cip_stop_heartbeat(CipFresh(cip)) IN
     IF c1.plc /\ has_close
     THEN cip' = c1 /\ sim' = sim /\ conn' = "closing"
     ELSE cip' = Cip_disconnect_finish(c1) /\ sim' = SimulatedPLC /\ conn' = "idle"

DisconnectEnd ==
  /\ conn = "closing"
  /\ ops' = ops
  /\ CipOnly
  /\ conn' = "idle"
  /\ cip' = Cip_disconnect_finish(CipFresh(cip))
  /\ sim' = SimulatedPLC

(***************************************************************************)
(* SimulatedPLC: timer callbacks (threads of their own)                    *)
(***************************************************************************)
SimTimer(kind, s) ==
  /\ cip.simulated_plc
  /\ sim.timers[kind] > 0
  /\ sim' = s
  /\ rc' = RcFresh(rc)
  /\ cip' = CipFresh(cip)
  /\ poll' = "none"
  /\ KeepExt
  /\ UNCHANGED <<h, tasks, conn, faults, ops, bg>>

SimRobotAck == SimTimer("ack", Sim_simulate_robot_ack(sim))

SimPickComplete ==
  sim.timers["place"] < MaxSimTimers /\ SimTimer("pick", Sim_simulate_pick_complete(sim))

SimPlaceComplete ==
  sim.timers["cycle"] < MaxSimTimers /\ SimTimer("place", Sim_simulate_place_complete(sim))

SimCycleComplete == SimTimer("cycle", Sim_simulate_cycle_complete(sim))

(***************************************************************************)
(* Another client of CIPClient calling read_tag / write_tag                *)
(***************************************************************************)
\* logical names tried by the client: writable and readable tags of the three
\* types in use, a name unknown to the TagMap and a device-level name
ExtNames ==
  {"VisionReady", "CentroidX", "DetectionCount", "RobotAck", "PlcSystemMode",
   "NotATag", "ROBOT_ACK"}

ExtValues == {PyBool(TRUE), PyInt(3), PyFloat(2), PyStr("x")}

ExtCalls ==
  {ReadCall(n) : n \in ExtNames} \cup
  {WriteCall(n, v) : n \in ExtNames, v \in ExtValues}

ExtStep(out) ==
  /\ cip' = out.cip
  /\ sim' = out.sim
  /\ rc' = RcFresh(rc)
  /\ poll' = "none"
  /\ UNCHANGED <<h, tasks, conn, ops, bg>>

\* the client enters read_tag / write_tag with one of these calls
ExtEnter(calls) == \E call \in calls :
  /\ ext.call.phase = "done"
  /\ Suspended(h.call)
  /\ IoEnabled(cip, sim, call)
  /\ LET out == EnterCall(CipFresh(cip), sim, call) IN
     /\ ExtStep(out)
     /\ ext' = [call |-> out.call, req |-> call, started |-> TRUE, res |-> out.res]
  /\ faults' = faults

ExtBegin == ExtEnter(ExtCalls)

\* the call of the client advances
ExtIo ==
  /\ ext.call.phase \in {"exec", "sleep"}
  /\ Suspended(h.call)
  /\ IoEnabled(cip, sim, ext.call)
  /\ \E o \in IoChoices(ext.call, faults) :
       LET out == IoStep(CipFresh(cip), sim, ext.call, o) IN
       /\ ExtStep(out)
       /\ ext' = [ext EXCEPT !.call = out.call, !.started = FALSE, !.res = out.res]
       /\ faults' = IF out.cip.error_count > cip.error_count THEN faults + 1 ELSE faults

(***************************************************************************)
(* CIPClient: heartbeat and automatic reconnection                         *)
(***************************************************************************)
\* the calls of a well-behaved client: a handshake read and a handshake write
ClientCalls == {ReadCall("RobotAck"), WriteCall("VisionReady", PyBool(TRUE))}

ClientBegin == ExtEnter(ClientCalls)

\* a callback or task of CIPClient runs between the suspensions of the others
BgStep ==
  /\ Suspended(h.call)
  /\ Suspended(ext.call)
  /\ rc' = RcFresh(rc)
  /\ poll' = "none"
  /\ KeepExt
  /\ UNCHANGED <<h, tasks, conn, faults, ops>>

\* _send_heartbeat, fired by the heartbeat timer; the write_tag task it
\* creates starts later (one such task at a time in the model)
SendHeartbeat ==
  /\ cip.heartbeat_timer
  /\ bg.hb.phase = "done"
  /\ BgStep
  /\ cip' = [CipFresh(cip) EXCEPT !.heartbeat_value = ~@]
  /\ bg' = [bg EXCEPT !.hb = WriteCall("VisionHeartbeat", PyBool(~cip.heartbeat_value))]
  /\ sim' = sim

\* outcomes the environment may choose for the write of the heartbeat
HeartbeatChoices ==
  IF bg.hb.phase # "exec" THEN {NoRes}
  ELSE {o \in DriverOutcomes(bg.hb) : o.kind = "exc" => bg.hb_faults < MaxHeartbeatFaults}

\* the write_tag of the heartbeat advances; nobody awaits its outcome
HeartbeatIo ==
  /\ bg.hb.phase # "done"
  /\ BgStep
  /\ IoEnabled(cip, sim, bg.hb)
  /\ \E o \in HeartbeatChoices :
       LET out == IoStep(CipFresh(cip), sim, bg.hb, o) IN
       /\ cip' = out.cip
       /\ sim' = out.sim
       /\ bg' = [bg EXCEPT !.hb = out.call,
                           !.hb_faults = IF out.cip.error_count > cip.error_count
                                         THEN @ + 1 ELSE @]

RecTasks == bg.rec["created"] + bg.rec["closing"] + bg.rec["sleep"] + bg.rec["connecting"]

\* a _try_reconnect task moves from one position to another ("none": it ends)
RecMove(from, to) ==
  [bg EXCEPT !.rec = [p \in RecPos |->
     bg.rec[p] - (IF p = from THEN 1 ELSE 0) + (IF p = to THEN 1 ELSE 0)]]

\* _on_reconnect_timer: the single-shot timer fires
ReconnectTimer ==
  /\ cip.timers > 0
  /\ BgStep
  /\ cip' = [CipFresh(cip) EXCEPT !.reconnect_timer = FALSE, !.timers = @ - 1]
  /\ sim' = sim
  /\ IF ~is_connected(cip.status) /\ cip.status # "connecting"
     THEN RecTasks < MaxReconnectTasks /\ bg' = RecMove("none", "created")
     ELSE bg' = bg

\* _try_reconnect from its start to the first suspension: the attempt is
\* counted, and unless it is given up disconnect() runs up to the close call
\* of the driver (which exists or not) or, without one, to its end and the
\* task sleeps
TryReconnect == \E has_close \in BOOLEAN :
  /\ bg.rec["created"] > 0
  /\ BgStep
  /\ LET c0 == [CipFresh(cip) EXCEPT !.reconnect_attempts = @ + 1]
         c1 == Cip_stop_heartbeat(c0)
     IN IF c0.reconnect_attempts > MaxRetries
        THEN cip' = c0 /\ sim' = sim /\ bg' = RecMove("created", "none")
        ELSE IF c1.plc /\ has_close
        THEN cip' = c1 /\ sim' = sim /\ bg' = RecMove("created", "closing")
        ELSE /\ cip' = Cip_disconnect_finish(c1)
             /\ sim' = SimulatedPLC
             /\ bg' = RecMove("created", "sleep")

\* the close call returned: the rest of disconnect(), then the task sleeps
ReconnectClosed ==
  /\ bg.rec["closing"] > 0
  /\ BgStep
  /\ cip' = Cip_disconnect_finish(CipFresh(cip))
  /\ sim' = SimulatedPLC
  /\ bg' = RecMove("closing", "sleep")

\* the end of _try_reconnect once its connect() returned
Cip_reconnect_end(c) ==
  IF is_connected(c.status) THEN [c EXCEPT !.reconnect_attempts = 0] ELSE c

\* the sleep is over: connect() up to the driver connect
ReconnectWakeWith(simulated) ==
  /\ bg.rec["sleep"] > 0
  /\ BgStep
  /\ IF is_connected(cip.status)
     THEN /\ cip' = Cip_reconnect_end([CipFresh(cip) EXCEPT !.ret = "True"])
          /\ sim' = sim
          /\ bg' = RecMove("sleep", "none")
     ELSE LET c1 == Cip_update_state(CipFresh(cip), "connecting") IN
          IF simulated
          THEN /\ cip' = Cip_reconnect_end(Cip_connect_simulated(c1))
               /\ sim' = SimulatedPLC
               /\ bg' = RecMove("sleep", "none")
          ELSE /\ cip' = c1
               /\ sim' = sim
               /\ bg' = RecMove("sleep", "connecting")

ReconnectWake == \E simulated \in BOOLEAN : ReconnectWakeWith(simulated)

\* _connect_sync returned to the connect() of _try_reconnect, or raised
ReconnectConnectedWith(success) ==
  /\ bg.rec["connecting"] > 0
  /\ BgStep
  /\ bg' = RecMove("connecting", "none")
  /\ IF success
     THEN cip' = Cip_reconnect_end(Cip_connect_real(CipFresh(cip))) /\ sim' = sim
     ELSE /\ cip' = Cip_reconnect_end(Cip_connect_simulated(CipFresh(cip)))
          /\ sim' = SimulatedPLC

ReconnectConnected == \E success \in BOOLEAN : ReconnectConnectedWith(success)

Next ==
  \/ Start
  \/ Stop
  \/ Reset
  \/ SetCycleMode
  \/ AuthorizeNextCycle
  \/ AuthorizeSendToPlc
  \/ ProcessDetection
  \/ AdvanceTime
  \/ PollCycle
  \/ ProcessCurrentState
  \/ HandlerIo
  \/ HandlerWake
  \/ ConnectBegin
  \/ ConnectEnd
  \/ DisconnectBegin
  \/ DisconnectEnd
  \/ SimRobotAck
  \/ SimPickComplete
  \/ SimPlaceComplete
  \/ SimCycleComplete

Spec == Init /\ [][Next]_vars

\* what the schedulers guarantee: the poll timer fires while it is started,
\* the event loop runs the task it was given, an executor call returns, a
\* sleep ends, and a started threading.Timer fires
Fairness ==
  /\ WF_vars(PollCycle)
  /\ WF_vars(ProcessCurrentState)
  /\ WF_vars(HandlerIo)
  /\ WF_vars(HandlerWake)
  /\ WF_vars(SimRobotAck)
  /\ WF_vars(SimPickComplete)
  /\ WF_vars(SimPlaceComplete)
  /\ WF_vars(SimCycleComplete)

SpecFair == Init /\ [][Next]_vars /\ Fairness

(***************************************************************************)
(* The pick-and-place cycle against the simulated device: the client is    *)
(* connected in simulated mode and set_cycle_mode("continuous") was        *)
(* called before start().  The delays of the simulated robot (1.5 s, 4 s,  *)
(* 5 s, 1 s) are shorter than the timeouts of the states that wait for it, *)
(* so no tick of these runs finds a timeout elapsed.                       *)
(***************************************************************************)
InitCycle ==
  /\ rc = Rc_set_cycle_mode(RobotControllerInit, "continuous")
  /\ cip = CipFresh(Cip_connect_simulated(Cip_update_state(CIPClientInit, "connecting")))
  /\ sim = SimulatedPLC
  /\ h = Idle
  /\ tasks = 0
  /\ poll = "none"
  /\ conn = "idle"
  /\ faults = 0
  /\ ops = 0
  /\ ext = ExtIdle
  /\ bg = BgIdle

NextCycle ==
  \/ Start
  \/ ProcessDetection
  \/ PollCycle
  \/ ProcessCurrentState
  \/ HandlerIo
  \/ SimRobotAck
  \/ SimPickComplete
  \/ SimPlaceComplete
  \/ SimCycleComplete

SpecCycle == InitCycle /\ [][NextCycle]_vars /\ Fairness

(***************************************************************************)
(* Recovery from ERROR and TIMEOUT: the cycle against the simulated device *)
(* with a clock that passes the deadlines (a robot that answers late), an  *)
(* operator who resets the machine and a client that is disconnected.      *)
(***************************************************************************)
NextRecover ==
  \/ Start
  \/ Reset
  \/ ProcessDetection
  \/ AdvanceTime
  \/ PollCycle
  \/ ProcessCurrentState
  \/ HandlerIo
  \/ HandlerWake
  \/ DisconnectBegin
  \/ SimRobotAck
  \/ SimPickComplete
  \/ SimPlaceComplete
  \/ SimCycleComplete

\* the clock does not stop: the time since the entry of a state passes every
\* deadline the handlers compare it with
SpecRecover == InitCycle /\ [][NextRecover]_vars /\ Fairness /\ WF_vars(AdvanceTime)

\* the same with a robot that may never answer: the ticks and the handlers
\* go on, the callbacks of the simulated robot run or do not, and the clock
\* passes every deadline however often a handler is at work when it is read
SpecSilent ==
  /\ InitCycle /\ [][NextRecover]_vars
  /\ WF_vars(PollCycle)
  /\ WF_vars(ProcessCurrentState)
  /\ WF_vars(HandlerIo)
  /\ WF_vars(HandlerWake)
  /\ SF_vars(AdvanceTime)

(***************************************************************************)
(* The CIPClient alone, used by a client that tries arbitrary tags.  The   *)
(* error counter of a client that has been in use may have any value; the  *)
(* runs start with no error and with the last tolerated number of errors.  *)
(***************************************************************************)
InitTag ==
  /\ rc = RobotControllerInit
  /\ cip \in {[CIPClientInit EXCEPT !.error_count = n] : n \in {0, DegradedThreshold}}
  /\ sim = SimulatedPLC
  /\ h = Idle
  /\ tasks = 0
  /\ poll = "none"
  /\ conn = "idle"
  /\ faults = 0
  /\ ops = 0
  /\ ext = ExtIdle
  /\ bg = BgIdle

NextTag ==
  \/ ExtBegin
  \/ ExtIo
  \/ ConnectBegin
  \/ ConnectEnd
  \/ DisconnectBegin
  \/ DisconnectEnd

SpecTag == InitTag /\ [][NextTag]_vars

(***************************************************************************)
(* The CIPClient with its heartbeat and its automatic reconnection, used   *)
(* by an application that connects and disconnects.                        *)
(***************************************************************************)
NextConn ==
  \/ ConnectBegin
  \/ ConnectEnd
  \/ DisconnectBegin
  \/ DisconnectEnd
  \/ SendHeartbeat
  \/ HeartbeatIo
  \/ ReconnectTimer
  \/ TryReconnect
  \/ ReconnectClosed
  \/ ReconnectWake
  \/ ReconnectConnected

SpecConn == InitTag /\ [][NextConn]_vars

\* an executor call made by connect() returns or raises
SpecConnFair == SpecConn /\ WF_vars(ConnectEnd) /\ WF_vars(ReconnectConnected)

(***************************************************************************)
(* The same with a client that reads and writes handshake tags while the   *)
(* heartbeat and the reconnection run.                                     *)
(***************************************************************************)
NextIo ==
  \/ ClientBegin
  \/ ExtIo
  \/ ConnectBegin
  \/ ConnectEnd
  \/ DisconnectBegin
  \/ DisconnectEnd
  \/ SendHeartbeat
  \/ HeartbeatIo
  \/ ReconnectTimer
  \/ TryReconnect
  \/ ReconnectClosed
  \/ ReconnectWake
  \/ ReconnectConnected

SpecIo == InitTag /\ [][NextIo]_vars

(***************************************************************************)
(* The SimulatedPLC alone: a fresh device, a caller of write_variable and  *)
(* the threading.Timer callbacks, each of which runs only when the delay   *)
(* of its timer has elapsed.                                               *)
(***************************************************************************)
\* device-level names written by the caller: the three triggers, a payload
\* flag and a name the device does not know
SimWriteNames ==
  {"PRODUCT_DETECTED", "VisionCtrl_EchoAck", "VisionCtrl_ReadyForNext",
   "VisionCtrl_DataSent", "NOT_A_TAG"}

SimWriteValues == {PyBool(TRUE), PyBool(FALSE)}

\* steps in which only the SimulatedPLC changes
SimOnly ==
  /\ cip.simulated_plc
  /\ rc' = RcFresh(rc)
  /\ cip' = CipFresh(cip)
  /\ poll' = "none"
  /\ KeepExt
  /\ UNCHANGED <<h, tasks, conn, faults, ops, bg>>

\* write_variable(name, value) called on the device (a write that starts a
\* timer waits for room among the timers)
SimWriteWith(name, value) ==
  /\ LET k == TimerStartedBy(name, value) IN
       k # "none" => sim.timers[k] < MaxSimTimers
  /\ sim' = Sim_write_variable(sim, name, value)
  /\ SimOnly

SimWrite == \E name \in SimWriteNames, value \in SimWriteValues : SimWriteWith(name, value)

\* the writes of the handshake: one of the three triggers is set
SimTriggerNames == {"PRODUCT_DETECTED", "VisionCtrl_EchoAck", "VisionCtrl_ReadyForNext"}

SimTrigger == \E name \in SimTriggerNames : SimWriteWith(name, PyBool(TRUE))

\* the oldest timer of this kind whose delay has not elapsed, 0 when none
NotDue(s, kind) ==
  IF \E i \in 1..Len(s.due[kind]) : ~s.due[kind][i]
  THEN CHOOSE i \in 1..Len(s.due[kind]) :
         ~s.due[kind][i] /\ \A j \in 1..(i - 1) : s.due[kind][j]
  ELSE 0

\* time passes: the delay of a started timer has elapsed
SimDelayElapsed(kind) ==
  /\ NotDue(sim, kind) > 0
  /\ sim' = [sim EXCEPT !.due[kind][NotDue(sim, kind)] = TRUE]
  /\ SimOnly

SimDelay == \E kind \in SimTimerKinds : SimDelayElapsed(kind)

Due(s, kind) == s.due[kind] # <<>> /\ Head(s.due[kind])

DueRobotAck == Due(sim, "ack") /\ SimRobotAck

DuePickComplete == Due(sim, "pick") /\ SimPickComplete

DuePlaceComplete == Due(sim, "place") /\ SimPlaceComplete

DueCycleComplete == Due(sim, "cycle") /\ SimCycleComplete

InitSim ==
  /\ rc = RobotControllerInit
  /\ cip = CipFresh(Cip_connect_simulated(Cip_update_state(CIPClientInit, "connecting")))
  /\ sim = SimulatedPLC
  /\ h = Idle
  /\ tasks = 0
  /\ poll = "none"
  /\ conn = "idle"
  /\ faults = 0
  /\ ops = 0
  /\ ext = ExtIdle
  /\ bg = BgIdle

NextSim ==
  \/ SimTrigger
  \/ SimDelay
  \/ DueRobotAck
  \/ DuePickComplete
  \/ DuePlaceComplete
  \/ DueCycleComplete

\* time passes for every started timer and a timer whose delay has elapsed
\* fires
SpecSim ==
  /\ InitSim /\ [][NextSim]_vars
  /\ \A kind \in SimTimerKinds : WF_vars(SimDelayElapsed(kind))
  /\ WF_vars(DueRobotAck)
  /\ WF_vars(DuePickComplete)
  /\ WF_vars(DuePlaceComplete)
  /\ WF_vars(DueCycleComplete)

\* the device under every write of the caller, each callback running at some
\* time after its timer was started
NextDevice ==
  \/ SimWrite
  \/ SimRobotAck
  \/ SimPickComplete
  \/ SimPlaceComplete
  \/ SimCycleComplete

SpecDevice == InitSim /\ [][NextDevice]_vars

(***************************************************************************)
(* Attempt after attempt against the simulated device: a cycle that ends   *)
(* in TIMEOUT because the robot answers late is followed by a new          *)
(* detection.                                                              *)
(***************************************************************************)
\* process_detection called by the detector also after an abandoned attempt
RetryDetection == \E detected \in BOOLEAN :
  /\ detected => rc.cycle_count < MaxCycles /\ Len(rc.cycle_steps) < MaxAttemptSteps
  /\ RcOnly(Rc_process_detection(RcFresh(rc), DetectionEvent(detected)))
  /\ ops' = ops

NextRetry ==
  \/ Start
  \/ RetryDetection
  \/ AdvanceTime
  \/ PollCycle
  \/ ProcessCurrentState
  \/ HandlerIo
  \/ HandlerWake
  \/ SimRobotAck
  \/ SimPickComplete
  \/ SimPlaceComplete
  \/ SimCycleComplete

SpecRetry == InitCycle /\ [][NextRetry]_vars

(***************************************************************************)
(* The cycle with the emergency stop of the plant.  RobotCtrl_EmergencyStop *)
(* is an input of the PLC: the plant sets and clears it in the memory the   *)
(* client reads, at any time and whatever the machine is doing.             *)
(***************************************************************************)
PlantEmergencyStop == \E pressed \in BOOLEAN :
  /\ Truthy(sim.tags["RobotCtrl_EmergencyStop"]) # pressed
  /\ sim' = [sim EXCEPT !.tags["RobotCtrl_EmergencyStop"] = PyBool(pressed)]
  /\ SimOnly

NextPlant ==
  \/ Start
  \/ Reset
  \/ ProcessDetection
  \/ AdvanceTime
  \/ PollCycle
  \/ ProcessCurrentState
  \/ HandlerIo
  \/ HandlerWake
  \/ DisconnectBegin
  \/ SimRobotAck
  \/ SimPickComplete
  \/ SimPlaceComplete
  \/ SimCycleComplete
  \/ PlantEmergencyStop

SpecPlant == InitCycle /\ [][NextPlant]_vars

(***************************************************************************)
(* Properties of read_tag / write_tag (checked under SpecTag)              *)
(***************************************************************************)
\* a request TagMap refuses: a name outside the whitelist, a read of a
\* write-only tag, a write of a read-only tag, a write of a mistyped value
Refused(call) ==
  \/ call.name \notin DefinedNames
  \/ call.op = "read" /\ DEFINITIONS[call.name].direction = "write"
  \/ call.op = "write" /\ DEFINITIONS[call.name].direction = "read"
  \/ call.op = "write"
     /\ ~TagDefinition_validate_value(DEFINITIONS[call.name].tag_type, call.value)

\* C1: a read_tag / write_tag that TagMap refuses (name not whitelisted, read
\* of a write-only tag, write of a read-only tag, value failing the type
\* check) accesses neither the driver nor the simulated device and ends at
\* once, whatever the connection status.
C1_RefusedNeverReachesDevice ==
  ext.started /\ Refused(ext.req) => cip.dev = <<>> /\ ext.call.phase = "done"

\* a refused write arrives while the link is up, on the driver and on the
\* simulated device
C1_Witness ==
  /\ ext.started
  /\ ext.req.op = "write"
  /\ ext.req.name \in DefinedNames
  /\ Refused(ext.req)
  /\ cip.status = "connected"
  /\ cip.plc

Emitted(r, sig) == \E i \in 1..Len(r.emitted) : r.emitted[i] = sig

\* the last step issued a write to the driver or to the simulated device
WroteTag(c) == \E i \in 1..Len(c.dev) : c.dev[i][2] = "write"

\* C3: every change of the machine state from S to T # S has T in
\* VALID_TRANSITIONS[S], and a requested transition to a T outside
\* VALID_TRANSITIONS[S] \cup {S} is made in state S and leaves the state S.
C3_OnlyAdjacentTransitions ==
  [][ /\ rc'.state # rc.state => rc'.state \in VALID_TRANSITIONS[rc.state]
      /\ \A i \in 1..Len(rc'.reqs) :
           LET q == rc'.reqs[i] IN
           q.to \notin VALID_TRANSITIONS[q.from] \cup {q.from} =>
             q.from = rc.state /\ rc'.state = rc.state ]_vars

\* a transition outside the table was requested by a running machine and
\* refused
C3_Witness ==
  /\ rc.reqs # <<>>
  /\ rc.reqs[1].to \notin VALID_TRANSITIONS[rc.reqs[1].from] \cup {rc.reqs[1].from}
  /\ rc.is_running
  /\ rc.state = rc.reqs[1].from

\* C4: in SENDING_DATA the machine goes to WAITING_ACK and emits
\* detection_sent only on the success of the 7th payload write, and a payload
\* write that fails takes it to ERROR, never to WAITING_ACK.
C4_WaitingAckOnlyAfterAllWrites ==
  [][ rc.state = "SENDING_DATA" =>
        /\ rc'.state = "WAITING_ACK" \/ Emitted(rc', "detection_sent") =>
              h.site = "sd_write" /\ h.k = PayloadLen /\ cip'.result.kind = "ok"
        /\ h.site = "sd_write" /\ cip'.result.kind = "exc" =>
              rc'.state = "ERROR" ]_vars

C6_EveryRaisedCallToError ==
  [][ h.site # "idle" /\ cip'.raised # "None" =>
        /\ rc'.state = "ERROR"
        /\ rc'.last_error # "None"
        /\ Emitted(rc', "error_occurred") ]_vars

\* the reads a handler polls with
PollingSites == {"wa_authorize", "wk_ack", "wp_pick", "wl_place", "wc_read"}

\* C6 amended: of the calls made from a state handler only the echo write of
\* ACK_CONFIRMED takes the failure path when it raises (last_error set,
\* error_occurred emitted, ERROR requested).  An error raised by any other
\* call is absorbed: no error_occurred, last_error unchanged, no transition
\* to ERROR; after a polling read the handler ends with the state unchanged,
\* and a PlcEmergencyStop read that raises counts as safe: in
\* WAITING_AUTHORIZATION the handler goes on to read the authorization, in
\* SAFETY_BLOCKED it requests WAITING_AUTHORIZATION.
C6_OnlyEchoWriteTakesFailurePath ==
  [][ h.site # "idle" /\ cip'.raised # "None" =>
        IF h.site = "ac_echo"
        THEN /\ Emitted(rc', "error_occurred")
             /\ rc'.last_error = cip'.raised
             /\ rc'.reqs = <<Request(rc.state, "ERROR",
                                     "ERROR" \in VALID_TRANSITIONS[rc.state])>>
        ELSE /\ ~Emitted(rc', "error_occurred")
             /\ rc'.last_error = rc.last_error
             /\ rc'.state # "ERROR"
             /\ h.site \in PollingSites => rc'.state = rc.state /\ h' = Idle
             /\ h.site = "wa_emergency" =>
                  rc'.state = rc.state /\ h'.site = "wa_authorize"
             /\ h.site = "sb_emergency" =>
                  rc'.reqs = <<Request(rc.state, "WAITING_AUTHORIZATION",
                                      "WAITING_AUTHORIZATION" \in
                                        VALID_TRANSITIONS[rc.state])>> ]_vars

\* a polling read of WAITING_PICK raised and the machine is still in
\* WAITING_PICK with no error recorded
C6_Witness ==
  /\ cip.raised # "None"
  /\ rc.state = "WAITING_PICK"
  /\ rc.reqs = <<>>
  /\ rc.last_error = "None"
  /\ h = Idle

\* C7: the machine enters DETECTING only from WAITING_AUTHORIZATION, when the
\* PlcAuthorizeDetection read of a tick returns true after the
\* PlcEmergencyStop read of the same tick returned false or failed; a tick
\* whose PlcEmergencyStop read returns true ends there, without reading the
\* authorization, with SAFETY_BLOCKED requested (and entered unless stop() or
\* reset() took the machine out of WAITING_AUTHORIZATION during the read);
\* SAFETY_BLOCKED is left for WAITING_AUTHORIZATION only when the
\* PlcEmergencyStop read of a tick returned false or failed.
C7_DetectingNeedsSafetyAndAuthorization ==
  [][ /\ rc'.state = "DETECTING" /\ rc.state # "DETECTING" =>
            /\ rc.state = "WAITING_AUTHORIZATION"
            /\ h.site = "wa_authorize"
            /\ ResIsTrue(cip'.result)
            /\ h.seen \in {<<"false">>, <<"exc">>}
      /\ h.site = "wa_emergency" /\ ResIsTrue(cip'.result) =>
            /\ h' = Idle
            /\ rc'.reqs = <<Request(rc.state, "SAFETY_BLOCKED",
                                    rc.state = "WAITING_AUTHORIZATION")>>
            /\ rc.state = "WAITING_AUTHORIZATION" => rc'.state = "SAFETY_BLOCKED"
      /\ rc.state = "SAFETY_BLOCKED" /\ rc'.state = "WAITING_AUTHORIZATION" =>
            /\ h.site = "sb_emergency"
            /\ cip'.result.kind # "none"
            /\ ~ResIsTrue(cip'.result) ]_vars

\* DETECTING was entered on an authorization read true
C7_Witness ==
  /\ rc.state = "DETECTING"
  /\ rc.reqs = <<Request("WAITING_AUTHORIZATION", "DETECTING", TRUE)>>
  /\ ResIsTrue(cip.result)

\* C8: stop() leaves the state STOPPED and is_running false, and the state
\* STOPPED is left only by start(), whatever a handler that was suspended at
\* the time of stop() requests or reports when it resumes.
C8_StoppedUntilStart ==
  [][ /\ Stop => rc'.state = "STOPPED" /\ ~rc'.is_running
      /\ rc.state = "STOPPED" /\ rc'.state # "STOPPED" =>
            Start /\ rc'.state = "INITIALIZING" /\ rc'.is_running
      /\ rc.state = "STOPPED" => ~rc.is_running ]_vars

\* a handler resumed after stop() and its request was refused
C8_Witness ==
  /\ rc.state = "STOPPED"
  /\ ~rc.is_running
  /\ rc.reqs # <<>>
  /\ rc.reqs[1].from = "STOPPED"
  /\ ~rc.reqs[1].accepted
  /\ h = Idle

\* C9: between stop() and the next start() the state machine increments no
\* cycle counter, records no cycle step, emits no cycle_completed,
\* cycle_summary, detection_sent or error_occurred and issues no tag write.
C9_NothingAfterStop ==
  [][ ~rc.is_running /\ ~rc'.is_running =>
        /\ rc'.cycle_count = rc.cycle_count
        /\ rc'.cycle_steps = rc.cycle_steps
        /\ ~Emitted(rc', "cycle_completed")
        /\ ~Emitted(rc', "cycle_summary")
        /\ ~Emitted(rc', "detection_sent")
        /\ ~Emitted(rc', "error_occurred")
        /\ ~WroteTag(cip') ]_vars

\* C10: the in-flight marker is set exactly while a handler is in flight; a
\* handler starts only when none is in flight; a tick that arrives while a
\* handler is in flight creates no task and starts no handler, and a task that
\* starts while a handler is in flight returns at once; the marker is cleared
\* when the handler ends.
C10_AtMostOneHandlerInFlight ==
  [][ /\ rc.processing <=> h.site # "idle"
      /\ rc.processing => tasks' <= tasks
      /\ rc.processing /\ (PollCycle \/ ProcessCurrentState) =>
            h' = h /\ rc'.state = rc.state /\ rc'.processing
      /\ h'.site = "idle" => ~rc'.processing ]_vars

\* a tick arrived while the handler was suspended on I/O and was dropped
C10_Witness ==
  /\ poll = "skipped"
  /\ h.site # "idle"
  /\ h.call.phase = "exec"
  /\ tasks = 0

\* C11: process_detection(event) in a state other than DETECTING changes
\* nothing (state, retained detection, step list and the two authorization
\* flags keep their values, no signal is emitted); in DETECTING it stores the
\* event as the retained detection and changes the state only when
\* event.detected is true: to WAITING_SEND_AUTHORIZATION in manual mode and to
\* SENDING_DATA in continuous mode.
C11_ProcessDetectionOnlyInDetecting ==
  [][ ProcessDetection =>
        IF rc.state # "DETECTING"
        THEN /\ rc'.state = rc.state
             /\ rc'.previous_state = rc.previous_state
             /\ rc'.current_detection = rc.current_detection
             /\ rc'.cycle_steps = rc.cycle_steps
             /\ rc'.user_cycle_authorized = rc.user_cycle_authorized
             /\ rc'.user_send_authorized = rc.user_send_authorized
             /\ rc'.emitted = <<>>
             /\ rc'.reqs = <<>>
        ELSE /\ rc'.current_detection \in {DetectionEvent(TRUE), DetectionEvent(FALSE)}
             /\ rc'.state =
                  IF ~rc'.current_detection.detected THEN "DETECTING"
                  ELSE IF rc.cycle_mode = "manual" THEN "WAITING_SEND_AUTHORIZATION"
                  ELSE "SENDING_DATA"
             /\ ~rc'.current_detection.detected => rc'.emitted = <<>> ]_vars

\* a detection delivered in DETECTING in continuous mode was taken
C11_Witness ==
  /\ rc.state = "SENDING_DATA"
  /\ rc.reqs = <<Request("DETECTING", "SENDING_DATA", TRUE)>>
  /\ rc.current_detection = DetectionEvent(TRUE)
  /\ rc.emitted = <<"cycle_step", "state_changed">>

\* C12: in manual mode READY_FOR_NEXT is left for WAITING_AUTHORIZATION only
\* with user_cycle_authorized set, and WAITING_SEND_AUTHORIZATION is left for
\* SENDING_DATA only with user_send_authorized set; each flag is set by its
\* authorize call alone and is cleared by the transition it enables; a tick
\* that finds the flag clear leaves the state as it is.
C12_ManualNeedsAuthorization ==
  [][ /\ ~rc.user_cycle_authorized /\ rc'.user_cycle_authorized => AuthorizeNextCycle
      /\ ~rc.user_send_authorized /\ rc'.user_send_authorized => AuthorizeSendToPlc
      /\ rc.state = "READY_FOR_NEXT" /\ rc'.state = "WAITING_AUTHORIZATION"
           /\ rc.cycle_mode = "manual" =>
             rc.user_cycle_authorized /\ ~rc'.user_cycle_authorized
      /\ rc.state = "WAITING_SEND_AUTHORIZATION" /\ rc'.state = "SENDING_DATA" =>
             rc.user_send_authorized /\ ~rc'.user_send_authorized
      /\ ProcessCurrentState /\ ~rc.processing /\ rc.cycle_mode = "manual"
           /\ rc.state = "READY_FOR_NEXT" /\ ~rc.user_cycle_authorized =>
             rc'.state = "READY_FOR_NEXT" /\ rc'.reqs = <<>>
      /\ ProcessCurrentState /\ ~rc.processing
           /\ rc.state = "WAITING_SEND_AUTHORIZATION" /\ ~rc.user_send_authorized =>
             rc'.state = "WAITING_SEND_AUTHORIZATION" /\ rc'.reqs = <<>> ]_vars

\* in manual mode an authorized tick has left READY_FOR_NEXT and used the flag
C12_Witness ==
  /\ rc.cycle_mode = "manual"
  /\ rc.state = "WAITING_AUTHORIZATION"
  /\ rc.reqs = <<Request("READY_FOR_NEXT", "WAITING_AUTHORIZATION", TRUE)>>
  /\ ~rc.user_cycle_authorized

\* C13: while the machine runs in continuous mode it does not stay in
\* READY_FOR_NEXT or in WAITING_SEND_AUTHORIZATION: under fair ticks it leaves
\* the state (or the mode is changed, or the machine is stopped).
C13_ContinuousLeavesWaitingStates ==
  \A st \in {"READY_FOR_NEXT", "WAITING_SEND_AUTHORIZATION"} :
    (rc.is_running /\ rc.cycle_mode = "continuous" /\ rc.state = st)
      ~> (rc.state # st \/ rc.cycle_mode # "continuous" \/ ~rc.is_running)

\* the three states with a timeout, the state each is left for when the
\* awaited flag is read true, and the handler site of that read
TimedStates == {"WAITING_ACK", "WAITING_PICK", "WAITING_PLACE"}

AfterFlag(st) ==
  CASE st = "WAITING_ACK" -> "ACK_CONFIRMED"
    [] st = "WAITING_PICK" -> "WAITING_PLACE"
    [] st = "WAITING_PLACE" -> "WAITING_CYCLE_START"

FlagSite(st) ==
  CASE st = "WAITING_ACK" -> "wk_ack"
    [] st = "WAITING_PICK" -> "wp_pick"
    [] st = "WAITING_PLACE" -> "wl_place"

\* TIMEOUT is entered only from a state with a timeout, by a tick that
\* starts later than the timeout after the entry of that state, and while the
\* state is TIMEOUT no further transition to TIMEOUT is requested
TimeoutOnlyAfterDeadlineOnce ==
  /\ rc'.state = "TIMEOUT" /\ rc.state # "TIMEOUT" =>
        /\ rc.state \in TimedStates
        /\ rc.elapsed > Deadline(rc.state)
        /\ ProcessCurrentState
  /\ rc.state = "TIMEOUT" =>
        \A i \in 1..Len(rc'.reqs) : rc'.reqs[i].to # "TIMEOUT"

\* C14 as stated: for each entry into WAITING_ACK (WAITING_PICK,
\* WAITING_PLACE) in which the flag is not observed within the timeout
\* measured from the entry, one transition to TIMEOUT occurs and no second
\* one, and none occurs before the timeout has elapsed; so the state is left
\* on the flag only within the timeout.
C14_TimeoutWheneverFlagIsLate ==
  [][ /\ TimeoutOnlyAfterDeadlineOnce
      /\ rc.state \in TimedStates /\ rc'.state = AfterFlag(rc.state) =>
            rc.elapsed <= Deadline(rc.state) ]_vars

\* C14 as the code has it: the timeout is tested when a tick starts.  A tick
\* that starts in WAITING_ACK (WAITING_PICK, WAITING_PLACE) later than the
\* timeout after the entry goes to TIMEOUT without reading; a tick that
\* starts earlier reads the flag, and a flag read true moves the machine on
\* whenever the read returns, also after the timeout.  TIMEOUT is entered
\* in no other way and is not requested again while the state is TIMEOUT.
C14_TimeoutTestedAtTickStart ==
  [][ /\ TimeoutOnlyAfterDeadlineOnce
      /\ ProcessCurrentState /\ ~rc.processing /\ rc.state \in TimedStates =>
            IF rc.elapsed > Deadline(rc.state)
            THEN /\ rc'.state = "TIMEOUT"
                 /\ rc'.reqs = <<Request(rc.state, "TIMEOUT", TRUE)>>
                 /\ h' = Idle
                 /\ cip'.dev = <<>>
            ELSE /\ rc'.state = rc.state
                 /\ h'.site = FlagSite(rc.state)
      /\ rc.state \in TimedStates /\ rc'.state = AfterFlag(rc.state) =>
            /\ h.site = FlagSite(rc.state)
            /\ ResIsTrue(cip'.result) ]_vars

\* a tick found WAITING_ACK older than ack_timeout
C14_Witness ==
  /\ rc.state = "TIMEOUT"
  /\ rc.reqs = <<Request("WAITING_ACK", "TIMEOUT", TRUE)>>
  /\ rc.emitted = <<"state_changed">>

\* the steps of one cycle in the order in which they are recorded
CycleStepOrder == <<"detect", "sent", "ack", "pick", "place", "complete">>

IsPrefix(s, q) == Len(s) <= Len(q) /\ s = SubSeq(q, 1, Len(s))

\* C15: with the simulated device (PlcAuthorizeDetection true) and continuous
\* mode, a started machine reaches DETECTING under fair ticks; a detected
\* event taken there (SENDING_DATA entered with cycle_count n) leads to
\* READY_FOR_NEXT with cycle_count n + 1; and the steps recorded in the cycle
\* are, in this order, detection, data sent, ack, pick, place and cycle
\* complete, all six of them recorded when the summary is emitted.
C15_EndToEndCycle ==
  /\ rc.is_running ~> rc.state = "DETECTING"
  /\ \A n \in 0..MaxCycles :
        (rc.state = "SENDING_DATA" /\ rc.cycle_count = n)
          ~> (rc.state = "READY_FOR_NEXT" /\ rc.cycle_count = n + 1)
  /\ [](IsPrefix(rc.cycle_steps, CycleStepOrder))
  /\ [][ /\ Emitted(rc', "cycle_step") => Len(rc'.cycle_steps) = Len(rc.cycle_steps) + 1
                                             \/ Emitted(rc', "cycle_summary")
         /\ Emitted(rc', "cycle_summary") =>
               /\ rc.cycle_steps = SubSeq(CycleStepOrder, 1, 5)
               /\ rc'.emitted = <<"cycle_step", "cycle_completed", "cycle_summary">>
               /\ rc'.cycle_count = rc.cycle_count + 1 ]_vars

\* the cycle against the simulated device has been completed
C15_Witness ==
  /\ rc.state = "READY_FOR_NEXT"
  /\ rc.cycle_count = 1
  /\ rc.cycle_mode = "continuous"
  /\ cip.simulated_plc
  /\ rc.reqs = <<Request("WAITING_CYCLE_START", "READY_FOR_NEXT", TRUE)>>

\* the transition to READY_FOR_NEXT requested at the end of the cleanup
ReadyRequest(st) ==
  Request(st, "READY_FOR_NEXT", "READY_FOR_NEXT" \in VALID_TRANSITIONS[st] \cup {st})

\* C16: when the PlcCycleStart read of a WAITING_CYCLE_START tick returns
\* true, cycle_count grows by one, the step, cycle_completed and cycle_summary
\* are emitted once each and the step list is emptied; the tick then writes
\* EchoAck and ReadyForNext and, whether these writes succeed or fail, clears
\* the retained detection and requests READY_FOR_NEXT, which is entered from
\* WAITING_CYCLE_START.  When the read returns false or fails nothing
\* changes.  cycle_count changes, and the two signals are emitted, at no
\* other place.
C16_CycleCountedOnCycleStart ==
  [][ /\ h.site = "wc_read" /\ cip'.result.kind # "none" =>
            IF ResIsTrue(cip'.result)
            THEN /\ rc'.cycle_count = rc.cycle_count + 1
                 /\ rc'.emitted = <<"cycle_step", "cycle_completed", "cycle_summary">>
                 /\ rc'.cycle_steps = <<>>
                 /\ h'.site = "wc_echo"
                 /\ h'.call = WriteCall("VisionEchoAck", PyBool(FALSE))
            ELSE /\ rc' = [RcFresh(rc) EXCEPT !.processing = FALSE]
                 /\ h' = Idle
      /\ h.site = "wc_echo" /\ cip'.result.kind = "ok" =>
            /\ h'.site = "wc_ready"
            /\ h'.call = WriteCall("VisionReadyForNext", PyBool(TRUE))
            /\ rc'.state = rc.state
      /\ (h.site = "wc_echo" /\ cip'.result.kind = "exc")
           \/ (h.site = "wc_ready" /\ cip'.result.kind # "none") =>
            /\ h' = Idle
            /\ rc'.current_detection = None
            /\ rc'.reqs = <<ReadyRequest(rc.state)>>
            /\ ~Emitted(rc', "error_occurred")
            /\ rc.state = "WAITING_CYCLE_START" => rc'.state = "READY_FOR_NEXT"
      /\ (rc'.cycle_count # rc.cycle_count
            \/ Emitted(rc', "cycle_completed")
            \/ Emitted(rc', "cycle_summary")) =>
            h.site = "wc_read" /\ ResIsTrue(cip'.result) ]_vars

\* the EchoAck write of the cleanup failed and READY_FOR_NEXT was entered
C16_Witness ==
  /\ rc.state = "READY_FOR_NEXT"
  /\ rc.reqs = <<Request("WAITING_CYCLE_START", "READY_FOR_NEXT", TRUE)>>
  /\ cip.result = ExcRes("TagError")
  /\ rc.cycle_count = 1
  /\ rc.current_detection = None

\* C17: a tick that starts in WAITING_AUTHORIZATION while the client is not
\* connected moves the machine to INITIALIZING and reads no tag.
C17_DisconnectedBackToInitializing ==
  [][ ProcessCurrentState /\ ~rc.processing /\ rc.state = "WAITING_AUTHORIZATION"
        /\ ~is_connected(cip.status) =>
          /\ rc'.state = "INITIALIZING"
          /\ h' = Idle
          /\ cip'.dev = <<>> ]_vars

\* C18: INITIALIZING is left for WAITING_AUTHORIZATION only by a tick that
\* starts in INITIALIZING and finds the client connected, and a tick that
\* finds it not connected leaves the state INITIALIZING, whatever stop(),
\* start() and reset() were called in between.
C18_InitializingLeftOnlyWhenConnected ==
  [][ /\ rc.state = "INITIALIZING" /\ rc'.state = "WAITING_AUTHORIZATION" =>
            ProcessCurrentState /\ ~rc.processing /\ is_connected(cip.status)
      /\ ProcessCurrentState /\ ~rc.processing /\ rc.state = "INITIALIZING"
           /\ ~is_connected(cip.status) =>
            rc'.state = "INITIALIZING" ]_vars

\* C19: a transition request whose target is the current state changes
\* neither the state, nor the previous state, nor the time since the entry
\* of the state, and emits no state_changed.
C19_SelfTransitionIsSilent ==
  [][ (\E i \in 1..Len(rc'.reqs) : rc'.reqs[i].from = rc'.reqs[i].to) =>
        /\ rc'.state = rc.state
        /\ rc'.previous_state = rc.previous_state
        /\ rc'.elapsed = rc.elapsed
        /\ ~Emitted(rc', "state_changed") ]_vars

\* C20: start() on a running machine returns True and changes nothing: state,
\* previous state, time since entry, cycle_count, retained detection and
\* poll timer keep their values and no signal is emitted.
C20_StartWhileRunningIsNoOp ==
  [][ Start /\ rc.is_running =>
        /\ rc'.ret = "True"
        /\ rc'.is_running
        /\ rc'.state = rc.state
        /\ rc'.previous_state = rc.previous_state
        /\ rc'.elapsed = rc.elapsed
        /\ rc'.cycle_count = rc.cycle_count
        /\ rc'.current_detection = rc.current_detection
        /\ rc'.poll_timer = rc.poll_timer
        /\ rc'.emitted = <<>>
        /\ rc'.reqs = <<>>
        /\ rc' = [RcFresh(rc) EXCEPT !.ret = "True"]
        /\ UNCHANGED <<h, tasks, cip.status, sim>> ]_vars

\* start() was called on a machine that runs a cycle; nothing was emitted
C20_Witness ==
  /\ rc.ret = "True"
  /\ rc.is_running
  /\ rc.state = "WAITING_ACK"
  /\ rc.elapsed > 0
  /\ rc.emitted = <<>>
  /\ h.call.phase = "exec"

\* C21 (as stated): while the machine runs and ticks arrive, ERROR is
\* eventually followed by INITIALIZING and TIMEOUT by WAITING_AUTHORIZATION,
\* and ERROR is never left for INITIALIZING before more than 5 s have passed
\* since its entry.
C21_ErrorAndTimeoutAreTransient ==
  /\ (rc.is_running /\ rc.state = "ERROR")
       ~> (rc.state = "INITIALIZING" \/ ~rc.is_running)
  /\ (rc.is_running /\ rc.state = "TIMEOUT")
       ~> (rc.state = "WAITING_AUTHORIZATION" \/ ~rc.is_running)
  /\ [][ rc.state = "ERROR" /\ rc'.state = "INITIALIZING" =>
           rc.elapsed > ErrorDwell ]_vars

\* C21 (amended): while the machine runs and ticks arrive, ERROR is eventually
\* followed by INITIALIZING and TIMEOUT by WAITING_AUTHORIZATION; a tick
\* leaves ERROR for INITIALIZING only when more than 5 s have passed since
\* its entry, and reset() leaves ERROR for INITIALIZING at once; TIMEOUT is
\* left for WAITING_AUTHORIZATION only by its handler waking from its sleep.
C21_TransientUnlessReset ==
  /\ (rc.is_running /\ rc.state = "ERROR")
       ~> (rc.state = "INITIALIZING" \/ ~rc.is_running)
  /\ (rc.is_running /\ rc.state = "TIMEOUT")
       ~> (rc.state = "WAITING_AUTHORIZATION" \/ ~rc.is_running)
  /\ [][ rc.state = "ERROR" /\ rc'.state = "INITIALIZING" =>
           \/ Reset
           \/ ProcessCurrentState /\ rc.elapsed > ErrorDwell ]_vars
  /\ [][ Reset /\ rc.state = "ERROR" /\ rc.is_running => rc'.state = "INITIALIZING" ]_vars
  /\ [][ rc.state = "TIMEOUT" /\ rc'.state = "WAITING_AUTHORIZATION" =>
           HandlerWake /\ h.site = "to_sleep" ]_vars

\* a tick has just moved the machine from ERROR to INITIALIZING
C21_Witness ==
  /\ rc.state = "INITIALIZING"
  /\ rc.previous_state = "ERROR"
  /\ rc.is_running
  /\ rc.reqs = <<Request("ERROR", "INITIALIZING", TRUE)>>
  /\ rc.last_error # "None"
  /\ poll = "none"
  /\ tasks = 0

\* C22: the summary emitted when a cycle completes holds exactly the steps of
\* that cycle, from its detection to its completion, and no step of an
\* earlier attempt is in the list while the machine waits in DETECTING for
\* the detection that starts a cycle.
C22_SummaryHoldsThisCycleOnly ==
  /\ [][ Emitted(rc', "cycle_summary") =>
           Append(rc.cycle_steps, "complete") = CycleStepOrder ]_vars
  /\ [](rc.state = "DETECTING" => rc.cycle_steps = <<>>)

(***************************************************************************)
(* Properties of connect(), disconnect(), the heartbeat and the automatic  *)
(* reconnection (checked under SpecConn, SpecConnFair and SpecIo)          *)
(***************************************************************************)
\* C23: from a status that is not connected, connect() terminates and returns
\* True with status Connected or Simulated and the heartbeat running, and
\* raises nothing; when simulation is forced or the driver connect fails the
\* status is Simulated, is_simulated is set and a SimulatedPLC is installed.
C23_ConnectAlwaysEndsConnected ==
  /\ [][cip'.ret # "None" /\ ~(ReconnectWake /\ is_connected(cip.status)) =>
         /\ cip'.ret = "True"
         /\ is_connected(cip'.status)
         /\ cip'.heartbeat_timer
         /\ cip'.raised = "None"]_vars
  /\ [][\/ ConnectBeginWith(TRUE) \/ ConnectEndWith(FALSE)
        \/ (ReconnectWakeWith(TRUE) /\ ~is_connected(cip.status))
        \/ ReconnectConnectedWith(FALSE)
        => /\ cip'.ret = "True"
           /\ cip'.status = "simulated"
           /\ cip'.is_simulated
           /\ cip'.simulated_plc
           /\ sim' = SimulatedPLC]_vars
  /\ [][(ConnectBeginWith(FALSE) => conn' = "connecting" /\ cip'.status = "connecting")
        /\ (ConnectEndWith(TRUE) => cip'.ret = "True" /\ cip'.status = "connected" /\ cip'.plc)
        /\ (ConnectBegin => ~is_connected(cip.status))]_vars
  /\ (conn = "connecting") ~> (conn = "idle" /\ cip.ret = "True")
  /\ (bg.rec["connecting"] > 0) ~> (cip.ret = "True")

\* connect() fell back to the simulation after the driver failed, coming from
\* Degraded
C23_Witness ==
  /\ cip.ret = "True"
  /\ cip.status = "simulated"
  /\ cip.emitted = <<"state_changed", "connected">>
  /\ cip.is_simulated /\ cip.simulated_plc /\ cip.heartbeat_timer
  /\ cip.error_count > DegradedThreshold
  /\ conn = "idle"
  /\ ops >= 2

\* C24: when disconnect() has completed no heartbeat timer is active and no
\* reconnect timer is pending (one scheduled while Degraded does not fire
\* afterwards), so the status stays Disconnected until connect() is called
\* from outside.
C24_DisconnectLeavesNoTimer ==
  [][(DisconnectBegin \/ DisconnectEnd) /\ conn' = "idle" =>
       /\ cip'.status = "disconnected"
       /\ ~cip'.heartbeat_timer
       /\ ~cip'.reconnect_timer
       /\ cip'.timers = 0]_vars

\* C25: every device access attempt of read_tag / write_tag, retries included,
\* starts while the status is Connected or Simulated; a call entered in any
\* other status raises ConnectionError and reaches no device, whatever the
\* interleaving with heartbeat writes, disconnect() and the reconnection.
C25_DeviceOnlyWhileConnected ==
  /\ [][cip'.dev # <<>> => is_connected(cip.status)]_vars
  /\ [][/\ ClientBegin \/ (HeartbeatIo /\ bg.hb.phase = "call")
        /\ ~is_connected(cip.status)
        => cip'.raised = "ConnectionError" /\ cip'.dev = <<>>]_vars

\* C26: a read_tag / write_tag that passed its validation makes at most
\* 1 + io_retries device attempts; it returns at the first attempt that
\* succeeds and leaves error_count as it was; an attempt that fails before the
\* last one changes nothing but the attempt number; when the last attempt
\* fails error_count grows by exactly 1, last_error is set and TagError is
\* raised; error_count changes in no other way.
C26_ErrorCountedOncePerCall ==
  [][ /\ (cip'.dev # <<>> =>
            /\ Len(cip'.dev) = 1
            /\ (IF ExtIo THEN ext.call.attempt ELSE 0) < 1 + IoRetries)
      /\ (ext'.res.kind = "ok" =>
            /\ cip'.dev # <<>> \/ ext.call.phase = "exec"
            /\ cip'.error_count = cip.error_count
            /\ cip'.last_error = cip.last_error
            /\ cip'.raised = "None"
            /\ ext'.call = NoCall)
      /\ (ExtIo /\ ext'.call.phase = "sleep" =>
            /\ ext'.call.attempt = ext.call.attempt + 1
            /\ ext'.call.attempt <= IoRetries
            /\ cip'.error_count = cip.error_count
            /\ cip'.raised = "None")
      /\ (ExtIo /\ ext'.res.kind = "exc" =>
            /\ ext.call.attempt = IoRetries
            /\ ext'.res = ExcRes("TagError")
            /\ cip'.raised = "TagError"
            /\ cip'.error_count = cip.error_count + 1
            /\ cip'.last_error = "io"
            /\ ext'.call = NoCall)
      /\ (cip'.error_count # cip.error_count => ExtIo /\ ext'.res = ExcRes("TagError"))
    ]_vars

\* a read on the driver failed on its last attempt, after a retry
C26_Witness ==
  /\ ext.res = ExcRes("TagError")
  /\ ~ext.started
  /\ ext.req = ReadCall("RobotAck")
  /\ cip.raised = "TagError"
  /\ cip.status = "connected"
  /\ cip.error_count = 1
  /\ cip.last_error = "io"
  /\ faults = 1

\* the status has just become Degraded
Degrades == cip'.status = "degraded" /\ cip.status # "degraded"

\* C27: the status becomes Degraded only from Connected and exactly when a
\* failed operation brings error_count above 5; a failure in any other status,
\* or one that leaves error_count at 5 or less, leaves the status as it is;
\* with auto_reconnect enabled a degradation leaves exactly one reconnect
\* timer pending, a timer is started only by a degradation that finds none
\* pending, and at no time is more than one reconnect timer pending.
C27_DegradedOnlyFromConnected ==
  /\ [][ /\ (Degrades =>
                /\ cip.status = "connected"
                /\ cip'.error_count = cip.error_count + 1
                /\ cip'.error_count > DegradedThreshold
                /\ cip'.raised = "TagError")
          /\ (cip'.error_count > cip.error_count =>
                IF cip.status = "connected" /\ cip'.error_count > DegradedThreshold
                THEN cip'.status = "degraded"
                ELSE cip'.status = cip.status)
          /\ (Degrades /\ AutoReconnect => cip'.reconnect_timer /\ cip'.timers = 1)
          /\ (cip'.timers > cip.timers => Degrades /\ AutoReconnect /\ cip.timers = 0)
        ]_vars
  /\ [](cip.timers <= 1 /\ (cip.reconnect_timer <=> cip.timers = 1))

\* a second degradation, after the application connected again
C27_Witness ==
  /\ cip.status = "degraded"
  /\ cip.emitted = <<"state_changed", "connection_error">>
  /\ cip.raised = "TagError"
  /\ cip.error_count = DegradedThreshold + 2
  /\ cip.timers = 1
  /\ bg.hb_faults = 2

\* a step of the disconnect() or connect() of a _try_reconnect task
ReconnectWork ==
  \/ TryReconnect /\ cip'.reconnect_attempts <= MaxRetries
  \/ ReconnectClosed
  \/ ReconnectWake
  \/ ReconnectConnected

\* C28: the automatic reconnection is bounded by max_retries: a _try_reconnect
\* disconnects and connects only while the attempt counter it has just
\* incremented is at most max_retries; once the counter exceeds max_retries
\* no _try_reconnect disconnects or connects any more and the status becomes
\* connected only through a connect() called from outside; a reconnect that
\* ends connected sets the counter to 0.
C28_ReconnectionIsBounded ==
  [][ /\ (cip.reconnect_attempts > MaxRetries => ~ReconnectWork)
      /\ (/\ cip.reconnect_attempts > MaxRetries
          /\ ~is_connected(cip.status) /\ is_connected(cip'.status)
          => ConnectBegin \/ ConnectEnd)
      /\ (/\ ReconnectWake \/ ReconnectConnected
          /\ cip'.ret = "True" /\ is_connected(cip'.status)
          => cip'.reconnect_attempts = 0)
    ]_vars

\* C29: in every reachable state of the CIPClient in which no disconnect() is
\* under way the heartbeat timer is active if and only if the status is
\* Connected or Simulated.
C29_HeartbeatIffConnected ==
  conn # "closing" /\ bg.rec["closing"] = 0 =>
    (cip.heartbeat_timer <=> is_connected(cip.status))

(***************************************************************************)
(* Properties of write_detection_result (checked under Spec)               *)
(***************************************************************************)
\* the write_tag calls of write_detection_result in the order of its body
PayloadOrder ==
  <<"ProductDetected", "CentroidX", "CentroidY", "Confidence", "DetectionCount",
    "ProcessingTime", "VisionDataSent">>

\* the device is asked in this step to write the tag of this logical name
DeviceWrite(name) ==
  \E i \in 1..Len(cip'.dev) :
     cip'.dev[i][2] = "write" /\ cip'.dev[i][3] = get_plc_name(name)

\* C30: write_detection_result issues its writes in the order ProductDetected,
\* CentroidX, CentroidY, Confidence, DetectionCount, ProcessingTime,
\* VisionDataSent: it starts with the first, goes from the k-th to the
\* (k+1)-th only when the k-th succeeded, and ends at the first write that
\* fails without attempting the later ones and without touching the earlier
\* ones again; the device is asked to write a payload tag only as the write
\* whose turn it is, and VisionDataSent only after the six writes before it
\* succeeded.
C30_PayloadWrittenInOrder ==
  /\ [](h.site = "sd_write" =>
          /\ h.k \in 1..PayloadLen
          /\ h.call.op = "write"
          /\ h.call.name = PayloadOrder[h.k]
          /\ Len(h.seen) = h.k - 1)
  /\ [][ /\ (h'.site = "sd_write" /\ h.site # "sd_write" =>
                ProcessCurrentState /\ h'.k = 1)
          /\ (h.site = "sd_write" /\ h'.site = "sd_write" /\ h'.k # h.k =>
                /\ HandlerIo
                /\ cip'.result.kind = "ok"
                /\ h'.k = h.k + 1
                /\ h'.data = h.data)
          /\ (h.site = "sd_write" /\ cip'.result.kind = "exc" =>
                h' = Idle /\ Len(cip'.dev) = 0)
          /\ (h.site = "sd_write" /\ h.k = PayloadLen /\ cip'.result.kind = "ok" =>
                h' = Idle)
          /\ (\A k \in 1..PayloadLen : DeviceWrite(PayloadOrder[k]) =>
                /\ HandlerIo
                /\ h.site = "sd_write"
                /\ h.k = k
                /\ Len(cip'.dev) = 1
                /\ h.seen = [i \in 1..(k - 1) |-> "true"])
        ]_vars

\* a write of the payload failed on the driver: the sequence ended there and
\* the handler went on
C30_Witness ==
  /\ h = Idle
  /\ cip.raised = "TagError"
  /\ cip.result = ExcRes("TagError")
  /\ cip.plc
  /\ rc.state = "WAITING_ACK"
  /\ rc.previous_state = "SENDING_DATA"
  /\ faults = 1

(***************************************************************************)
(* Properties of the SimulatedPLC (checked under SpecSim and SpecDevice)   *)
(***************************************************************************)
SimTag(name) == Truthy(sim.tags[name])

\* the tag is true after this step and was not before it
BecomesTrue(name) == Truthy(sim'.tags[name]) /\ ~Truthy(sim.tags[name])

\* C31: on a fresh SimulatedPLC, ROBOT_ACK and RobotStatus_Busy become true
\* only in the callback of a timer that a true write of PRODUCT_DETECTED
\* started, and not before its delay has elapsed; the timer of
\* RobotStatus_PickComplete is started only by a true write of
\* VisionCtrl_EchoAck, the timer of RobotStatus_PlaceComplete only by the
\* callback that set RobotStatus_PickComplete, the timer of
\* RobotCtrl_CycleStart only by the callback that set
\* RobotStatus_PlaceComplete and cleared RobotStatus_Busy; each flag becomes
\* true only in the callback of its timer once the delay has elapsed; and
\* after a true write of VisionCtrl_EchoAck RobotCtrl_CycleStart is
\* eventually true.
C31_RobotFlagsFollowTheirTimers ==
  /\ [][ /\ (BecomesTrue("ROBOT_ACK") \/ BecomesTrue("RobotStatus_Busy") => DueRobotAck)
          /\ (DueRobotAck => SimTag("ROBOT_ACK")' /\ SimTag("RobotStatus_Busy")')
          /\ (BecomesTrue("RobotStatus_PickComplete") => DuePickComplete)
          /\ (DuePickComplete => SimTag("RobotStatus_PickComplete")')
          /\ (BecomesTrue("RobotStatus_PlaceComplete") => DuePlaceComplete)
          /\ (DuePlaceComplete =>
                SimTag("RobotStatus_PlaceComplete")' /\ ~SimTag("RobotStatus_Busy")')
          /\ (BecomesTrue("RobotCtrl_CycleStart") => DueCycleComplete)
          /\ (DueCycleComplete => SimTag("RobotCtrl_CycleStart")')
          /\ (Len(sim'.due["ack"]) > Len(sim.due["ack"]) =>
                SimWriteWith("PRODUCT_DETECTED", PyBool(TRUE)))
          /\ (Len(sim'.due["pick"]) > Len(sim.due["pick"]) =>
                SimWriteWith("VisionCtrl_EchoAck", PyBool(TRUE)))
          /\ (Len(sim'.due["place"]) > Len(sim.due["place"]) => DuePickComplete)
          /\ (Len(sim'.due["cycle"]) > Len(sim.due["cycle"]) => DuePlaceComplete)
          /\ (\A kind \in SimTimerKinds :
                Len(sim'.due[kind]) > Len(sim.due[kind]) =>
                  ~sim'.due[kind][Len(sim'.due[kind])])
        ]_vars
  /\ (sim.timers["ack"] > 0 ~> (SimTag("ROBOT_ACK") /\ SimTag("RobotStatus_Busy")))
  /\ (sim.timers["pick"] > 0 ~> SimTag("RobotCtrl_CycleStart"))

\* PRODUCT_DETECTED and VisionCtrl_EchoAck were written true and the four
\* callbacks have run
C31_Witness ==
  /\ SimTag("PRODUCT_DETECTED") /\ SimTag("VisionCtrl_EchoAck")
  /\ SimTag("ROBOT_ACK")
  /\ SimTag("RobotStatus_PickComplete") /\ SimTag("RobotStatus_PlaceComplete")
  /\ ~SimTag("RobotStatus_Busy")
  /\ SimTag("RobotCtrl_CycleStart")
  /\ \A kind \in SimTimerKinds : sim.timers[kind] = 0

\* C32: a write of VisionCtrl_ReadyForNext = true leaves the nine flags of
\* _reset_robot_flags false, every other tag as it was and every timer as it
\* was; a write that is not a true write of PRODUCT_DETECTED,
\* VisionCtrl_EchoAck or VisionCtrl_ReadyForNext stores the written value
\* under the written name, changes no other tag and starts no timer.
C32_WriteChangesOnlyWhatItNames ==
  [][/\ SimWriteWith("VisionCtrl_ReadyForNext", PyBool(TRUE)) =>
          /\ \A n \in ResetFlagNames : sim'.tags[n] = PyBool(FALSE)
          /\ DOMAIN sim'.tags = DOMAIN sim.tags
          /\ \A n \in (DOMAIN sim.tags) \ ResetFlagNames : sim'.tags[n] = sim.tags[n]
          /\ sim'.timers = sim.timers
          /\ sim'.due = sim.due
     /\ \A name \in SimWriteNames, value \in SimWriteValues :
          (/\ SimWriteWith(name, value)
           /\ ~(name \in SimTriggerNames /\ Truthy(value))) =>
             /\ DOMAIN sim'.tags = (DOMAIN sim.tags) \cup {name}
             /\ sim'.tags[name] = value
             /\ \A n \in (DOMAIN sim.tags) \ {name} : sim'.tags[n] = sim.tags[n]
             /\ sim'.timers = sim.timers
             /\ sim'.due = sim.due]_vars

\* the flags were cleared while the place timer started by the pick callback
\* is still pending, and a name unknown to the device has been written
C32_Witness ==
  /\ \A n \in ResetFlagNames : ~SimTag(n)
  /\ sim.timers["place"] > 0
  /\ "NOT_A_TAG" \in DOMAIN sim.tags
  /\ SimTag("ROBOT_READY")

(***************************************************************************)
(* Properties of the lifecycle of the RobotController (checked under Spec) *)
(***************************************************************************)
\* C33: in every reachable state, is_running is true exactly when the state
\* is not STOPPED.
C33_RunningIffNotStopped == rc.is_running <=> rc.state # "STOPPED"

\* the machine is stopped and a handler that was suspended when stop() ran
\* has asked for a transition, which was refused
C33_Witness ==
  /\ rc.state = "STOPPED"
  /\ ~rc.is_running
  /\ \E i \in 1..Len(rc.reqs) : rc.reqs[i].from = "STOPPED" /\ ~rc.reqs[i].accepted

(***************************************************************************)
(* Properties of the connection of the CIPClient (checked under SpecConn)  *)
(***************************************************************************)
\* C34: in every reachable state of the CIPClient a SimulatedPLC is installed
\* with is_simulated set if and only if the status is Simulated, and in the
\* status Connected no SimulatedPLC is installed (the calls go to the driver)
\* and is_simulated is false.
C34_SimulatedIffStatusSimulated ==
  /\ (cip.simulated_plc /\ cip.is_simulated) <=> cip.status = "simulated"
  /\ cip.status = "connected" => ~cip.simulated_plc /\ ~cip.is_simulated

\* C35: whenever a step sets the status to Connected, error_count is 0 in the
\* new state (is_healthy holds), and the status becomes Degraded only with
\* the failure that brings the count of the connection to 6.
C35_ConnectedStartsClean ==
  [][/\ (cip'.status = "connected" /\ cip.status # "connected") =>
          /\ cip'.error_count = 0
          /\ is_healthy(cip'.status, cip'.error_count)
     /\ Degrades => cip'.error_count = DegradedThreshold + 1]_vars

(***************************************************************************)
(* Properties of the operator authorizations (checked under Spec)          *)
(***************************************************************************)
\* C36: an authorization given outside its wait has no effect on a later
\* arrival: whenever the machine in manual mode arrives in
\* WAITING_SEND_AUTHORIZATION no authorization to send is pending, and
\* whenever it arrives in READY_FOR_NEXT no authorization of the next cycle
\* is pending, so that the wait ends only by an authorization given in it.
C36_AuthorizationOnlyInItsWait ==
  [][/\ (/\ rc'.state = "WAITING_SEND_AUTHORIZATION"
          /\ rc.state # "WAITING_SEND_AUTHORIZATION"
          /\ rc'.cycle_mode = "manual") => ~rc'.user_send_authorized
     /\ (/\ rc'.state = "READY_FOR_NEXT"
          /\ rc.state # "READY_FOR_NEXT"
          /\ rc'.cycle_mode = "manual") => ~rc'.user_cycle_authorized]_vars

(***************************************************************************)
(* Progress of the handshake (checked under SpecRecover)                   *)
(***************************************************************************)
\* C37: SENDING_DATA is transient: with the machine running, ticks arriving
\* and the device answering, every entry into SENDING_DATA is eventually
\* followed by WAITING_ACK, ERROR or STOPPED.
C37_SendingDataIsTransient ==
  rc.state = "SENDING_DATA" ~> rc.state \in {"WAITING_ACK", "ERROR", "STOPPED"}

\* C38 as claimed: from each of WAITING_ACK, WAITING_PICK, WAITING_PLACE and
\* WAITING_CYCLE_START the machine eventually reaches TIMEOUT, ERROR,
\* READY_FOR_NEXT or STOPPED, whether the device raises the flag or not.
C38_EveryWaitEnds ==
  \A st \in {"WAITING_ACK", "WAITING_PICK", "WAITING_PLACE", "WAITING_CYCLE_START"} :
    rc.state = st ~> rc.state \in {"TIMEOUT", "ERROR", "READY_FOR_NEXT", "STOPPED"}

\* C38: from each of WAITING_ACK, WAITING_PICK and WAITING_PLACE the machine
\* eventually reaches TIMEOUT, ERROR, WAITING_CYCLE_START or STOPPED, whether
\* the device raises the awaited flag or not (WAITING_CYCLE_START has no
\* deadline and is left only when the flag is read).
C38_TimedWaitsEnd ==
  \A st \in {"WAITING_ACK", "WAITING_PICK", "WAITING_PLACE"} :
    rc.state = st ~> rc.state \in {"TIMEOUT", "ERROR", "WAITING_CYCLE_START", "STOPPED"}

\* the wait for the place ended in TIMEOUT with the flag never raised
C38_Witness ==
  /\ rc.state = "TIMEOUT"
  /\ rc.previous_state = "WAITING_PLACE"
  /\ ~SimTag("RobotStatus_PlaceComplete")

(***************************************************************************)
(* The emergency stop (checked under SpecPlant)                            *)
(***************************************************************************)
\* the states of the handshake with the robot
HandshakeStates ==
  {"SENDING_DATA", "WAITING_ACK", "ACK_CONFIRMED", "WAITING_PICK", "WAITING_PLACE"}

\* C39: in a step that begins and ends with PlcEmergencyStop true in the PLC
\* the machine enters none of SENDING_DATA, WAITING_ACK, ACK_CONFIRMED,
\* WAITING_PICK and WAITING_PLACE and the device is asked to write neither a
\* tag of the detection payload nor VisionEchoAck.
C39_EmergencyStopHoldsHandshake ==
  [][(SimTag("RobotCtrl_EmergencyStop") /\ Truthy(sim'.tags["RobotCtrl_EmergencyStop"])) =>
       /\ rc'.state # rc.state => rc'.state \notin HandshakeStates
       /\ \A i \in 1..Len(PayloadOrder) : ~DeviceWrite(PayloadOrder[i])
       /\ ~DeviceWrite("VisionEchoAck")]_vars

(***************************************************************************)
(* The flags of the simulated robot across cycles (checked under           *)
(* SpecRetry)                                                              *)
(***************************************************************************)
\* C40: the flags the machine acts on are reactions to the writes of the
\* current cycle: when SENDING_DATA writes ProductDetected the device holds no
\* ROBOT_ACK of an earlier attempt, and when ACK_CONFIRMED writes
\* VisionEchoAck it holds no RobotStatus_PickComplete,
\* RobotStatus_PlaceComplete or RobotCtrl_CycleStart of an earlier attempt,
\* so that a flag read true in the wait that follows was raised after the
\* write.
C40_FlagsBelongToTheCycle ==
  [][/\ (rc.state = "SENDING_DATA" /\ DeviceWrite("ProductDetected")) =>
          ~SimTag("ROBOT_ACK")
     /\ (rc.state = "ACK_CONFIRMED" /\ DeviceWrite("VisionEchoAck")) =>
          /\ ~SimTag("RobotStatus_PickComplete")
          /\ ~SimTag("RobotStatus_PlaceComplete")
          /\ ~SimTag("RobotCtrl_CycleStart")]_vars

====
